---- MODULE Spec2Model ----
(***************************************************************************)
(* CleanForce: pattern-based removal of field references from Salesforce   *)
(* metadata XML, with per-file backups, a bounded operation history and    *)
(* single-step undo.                                                       *)
(*                                                                         *)
(* File text is a sequence of tokens.  A token is a maximal piece of text  *)
(* that the program's patterns never split: a tag ("<field>"), a name      *)
(* part ("Name__c", "Other_"), a separator ("."), a line break or a blank. *)
(* Concatenating strings is concatenating token sequences, and a string    *)
(* occurs in a text exactly when its tokens occur as a contiguous run, so  *)
(* "Name__c" occurs inside "Other_Name__c" = <<"Other_", "Name__c">>.      *)
(***************************************************************************)
EXTENDS Integers, Sequences, FiniteSets, TLC

(***************************************************************************)
(* Bounds of the model.                                                    *)
(***************************************************************************)
\* Longest fixture, in segments, handed to a rewriter.
MaxSegs == 2

(***************************************************************************)
(* Strings as token sequences.                                             *)
(***************************************************************************)
NL == "\n"
SP == " "
WhiteSpace == {NL, SP}
\* Tokens that are one character long and are not a line break: what an
\* unescaped "." of a regular expression matches.
SingleChars == {".", SP}

\* String.prototype.includes
Includes(s, n) ==
    \E i \in 1..(Len(s) - Len(n) + 1) : SubSeq(s, i, i + Len(n) - 1) = n

(***************************************************************************)
(* Regular expressions.  A pattern is a sequence of elements:              *)
(*   lit  t   the literal text t                                           *)
(*   any1     an unescaped "." (one character, no line break)              *)
(*   alt  s   one of the literal alternatives in s, (?:a|b)                *)
(*   ws       \s*      (greedy)                                            *)
(*   lazy     [\s\S]*? (lazy)                                              *)
(*   text     [^<]*    (greedy)                                            *)
(***************************************************************************)
Lit(t) == [k |-> "lit", t |-> t]
Any1 == [k |-> "any1"]
Alt(s) == [k |-> "alt", s |-> s]
Ws == [k |-> "ws"]
Lazy == [k |-> "lazy"]
Text == [k |-> "text"]

\* The source text of a pattern, written without escaping: "." is a wildcard.
RawSource(name) ==
    [i \in 1..Len(name) |-> IF name[i] = "." THEN Any1 ELSE Lit(name[i])]

\* escapeRegex: every metacharacter is escaped, so the pattern is the literal.
escapeRegex(name) == [i \in 1..Len(name) |-> Lit(name[i])]

\* The element of a set of one element: {f(x) : x \in {e}} computes e once,
\* before f.
The(S) == CHOOSE x \in S : TRUE

Max(S) == CHOOSE x \in S : \A y \in S : y <= x
Min(S) == CHOOSE x \in S : \A y \in S : x <= y

\* Tokens that hold no "<": names, separators, values and white space.
Words == WhiteSpace \cup {".", "Case", "Record", "Name__c", "Foo__c", "Other_", "true", "false",
                          "fieldName", "visibilityRule", "criteria", "filter", "MyClass",
                          "$Record", "OtherClass"}

\* Length of the longest run of tokens in S of s starting at position i.
Run(s, i, S) == Min({j \in i..Len(s) : s[j] \notin S} \cup {Len(s) + 1}) - i

\* The elements that match a run of tokens of any length.
Stars == {"ws", "lazy", "text"}

\* The tokens a greedy star takes.
Class(e) == IF e.k = "ws" THEN WhiteSpace ELSE Words

\* The element e matches the one token at position i of s.
Fits(e, s, i) ==
    /\ i <= Len(s)
    /\ CASE e.k = "lit" -> s[i] = e.t
         [] e.k = "any1" -> s[i] \in SingleChars
         [] e.k = "alt" -> s[i] \in e.s

\* The number of elements from pat[k] on, up to the next star or the end.
FixedRun(pat, k) == Min({j \in k..Len(pat) : pat[j].k \in Stars} \cup {Len(pat) + 1}) - k

\* The greedy star pat[k] never gives back what it took: the pattern ends
\* with it, or the literal after it is not a token the star takes.
Possessive(pat, k) ==
    \/ k = Len(pat)
    \/ pat[k + 1].k = "lit" /\ pat[k + 1].t \notin Class(pat[k])

\* The position after the match of pat[k..] at position i of s that the
\* backtracking matcher finds first, or 0 when there is none.
RECURSIVE MatchEnd(_, _, _, _)
MatchEnd(s, i, pat, k) ==
    CASE k > Len(pat) -> i
      [] k <= Len(pat) /\ pat[k].k \in {"ws", "text"} /\ Possessive(pat, k) ->
           \* the whole run, then the elements up to the next star
           LET r == i + Run(s, i, Class(pat[k]))
               m == FixedRun(pat, k + 1)
           IN  IF \A j \in 1..m : Fits(pat[k + j], s, r + j - 1)
               THEN MatchEnd(s, r + m, pat, k + 1 + m)
               ELSE 0
      [] k <= Len(pat) /\ pat[k].k \in {"ws", "text"} /\ ~Possessive(pat, k) ->
           \* greedy: the longest run after which the rest matches
           LET ok == {n \in 0..Run(s, i, Class(pat[k])) : MatchEnd(s, i + n, pat, k + 1) # 0}
           IN  IF ok = {} THEN 0 ELSE MatchEnd(s, i + Max(ok), pat, k + 1)
      [] k <= Len(pat) /\ pat[k].k = "lazy" ->
           \* lazy: the shortest run after which the rest matches
           LET ok == {n \in 0..(Len(s) - i + 1) : MatchEnd(s, i + n, pat, k + 1) # 0}
           IN  IF ok = {} THEN 0 ELSE MatchEnd(s, i + Min(ok), pat, k + 1)
      [] OTHER ->
           LET m == FixedRun(pat, k)
           IN  IF \A j \in 0..(m - 1) : Fits(pat[k + j], s, i + j)
               THEN MatchEnd(s, i + m, pat, k + m)
               ELSE 0

\* RegExp.prototype.test (no anchors)
Test(pat, s) ==
    \E p \in {pat}, c \in {s} : \E i \in 1..(Len(c) + 1) : MatchEnd(c, i, p, 1) # 0

\* The matches of a global pattern, left to right and not overlapping, as
\* <<first, last>> position pairs (every pattern here matches some text).
RECURSIVE MatchesFrom(_, _, _)
\* The positions from i on where pat matches.
Starts(s, i, pat) == {j \in i..Len(s) : MatchEnd(s, j, pat, 1) > j}

MatchesFrom(s, i, pat) ==
    LET starts == Starts(s, i, pat)
        e == MatchEnd(s, Min(starts), pat, 1)
    IN  IF starts = {} THEN <<>>
        ELSE <<(<<Min(starts), e - 1>>)>> \o MatchesFrom(s, e, pat)

Matches(s, pat) == The({MatchesFrom(c[1], 1, c[2]) : c \in {<<s, pat>>}})

\* content.replace(pattern, ...) with a global pattern: match n of ms is
\* replaced by repl[n]; the text between the matches is kept.
RECURSIVE Splice(_, _, _, _, _)
Splice(s, ms, repl, n, from) ==
    IF n > Len(ms) THEN SubSeq(s, from, Len(s))
    ELSE SubSeq(s, from, ms[n][1] - 1) \o repl[n]
         \o Splice(s, ms, repl, n + 1, ms[n][2] + 1)

Span(s, m) == SubSeq(s, m[1], m[2])

Spans(s, ms) == [n \in 1..Len(ms) |-> Span(s, ms[n])]

\* content.replace(blockRegex, (match) => tests.some(test(match)) ? '' : match)
\* with the removed++ of the callback: the new content and the removals.
\* The matches ms of content with those for which hit holds removed, and
\* their number.
RemoveHits(content, ms, hit) ==
    [content |-> Splice(content, ms,
                        [n \in 1..Len(ms) |-> IF hit[n] THEN <<>> ELSE Span(content, ms[n])],
                        1, 1),
     removed |-> Cardinality({n \in 1..Len(ms) : hit[n]})]

TestHits(content, ms, tests) ==
    [n \in 1..Len(ms) |-> \E p \in tests : Test(p, Span(content, ms[n]))]

RemoveTested(content, ms, tests) == RemoveHits(content, ms, TestHits(content, ms, tests))

ReplaceBlocks(content, blockPat, tests) ==
    RemoveTested(content, Matches(content, blockPat), tests)

\* matches = content.match(pattern); removed += matches.length;
\* content = content.replace(pattern, '')
ReplaceAll(content, pat) ==
    RemoveHits(content, Matches(content, pat), [n \in 1..Len(content) |-> TRUE])

ReplaceWith(content, ms, text) == Splice(content, ms, [n \in 1..Len(ms) |-> text], 1, 1)

\* content.replace(/\n\s*\n\s*\n/g, '\n\n')
CollapseBlankLines(content) ==
    ReplaceWith(content, Matches(content, <<Lit(NL), Ws, Lit(NL), Ws, Lit(NL)>>), <<NL, NL>>)

\* content.replace(/<tag>\s*<\/tag>/g, '')
RemoveEmpty(content, open, close) ==
    ReplaceAll(content, <<Lit(open), Ws, Lit(close)>>).content

(***************************************************************************)
(* Names.                                                                  *)
(***************************************************************************)
ObjectName == <<"Case">>
FieldA == <<"Name__c">>
FieldB == <<"Foo__c">>
\* A field whose name ends with the name of FieldA.
FieldOther == <<"Other_", "Name__c">>

\* `${objectName}.${fieldName}`
FullFieldRef(obj, field) == obj \o <<".">> \o field

\* The inner-tag pattern without its opening tag: value followed by </tag>.
ElementPatternUnanchored(tag, value) == escapeRegex(value) \o <<Lit("</" \o tag \o ">")>>

\* new RegExp(`<tag>${escapeRegex(value)}</tag>`)
ElementPattern(tag, value) ==
    <<Lit("<" \o tag \o ">")>> \o escapeRegex(value) \o <<Lit("</" \o tag \o ">")>>

\* /<tag>[\s\S]*?<\/tag>/g
BlockPattern(tag) == <<Lit("<" \o tag \o ">"), Lazy, Lit("</" \o tag \o ">")>>

(***************************************************************************)
(* The per-file rewrite of each cleaner: the loop over the requested       *)
(* fields, then the cleanup.  Each yields                                  *)
(*   blocks   the content after the loop over the fields,                  *)
(*   content  the content after the cleanup (what would be written),       *)
(*   removed  the removals counted.                                        *)
(***************************************************************************)
\* removed += ...: the result r of one replacement after `removed` removals.
Counted(r, removed) == [content |-> r.content, removed |-> removed + r.removed]

\* The next replacement, applied to the content of the result so far.
ThenBlocks(sofar, blockPat, tests) ==
    The({Counted(ReplaceBlocks(r.content, blockPat, tests), r.removed) : r \in {sofar}})

ThenAll(sofar, pat) ==
    The({Counted(ReplaceAll(r.content, pat), r.removed) : r \in {sofar}})

Start(content, removed) == [content |-> content, removed |-> removed]

Rewritten(r, cleaned) == [blocks |-> r.content, content |-> cleaned, removed |-> r.removed]

RECURSIVE LayoutFields(_, _)
LayoutFields(sofar, fields) ==
    IF fields = <<>> THEN sofar
    ELSE The({LayoutFields(r, Tail(fields)) :
                r \in {ThenBlocks(sofar, BlockPattern("layoutItems"),
                                  {ElementPattern("field", Head(fields))})}})

LayoutCleanup(r) == Rewritten(r, CollapseBlankLines(r.content))

LayoutRewrite(content, fields) ==
    The({LayoutCleanup(r) : r \in {LayoutFields(Start(content, 0), fields)}})

RECURSIVE RecordTypeFields(_, _)
RecordTypeFields(sofar, fields) ==
    IF fields = <<>> THEN sofar
    ELSE The({RecordTypeFields(r, Tail(fields)) :
                r \in {ThenBlocks(sofar, BlockPattern("picklistValues"),
                                  {ElementPattern("picklist", Head(fields))})}})

RecordTypeRewrite(content, fields) ==
    The({LayoutCleanup(r) : r \in {RecordTypeFields(Start(content, 0), fields)}})

RECURSIVE ListViewFields(_, _)
ListViewFields(sofar, fields) ==
    IF fields = <<>> THEN sofar
    ELSE The({ListViewFields(r, Tail(fields)) :
                r \in {ThenBlocks(
                          ThenAll(sofar, <<Ws>> \o ElementPattern("columns", Head(fields))),
                          BlockPattern("filters"), {ElementPattern("field", Head(fields))})}})

ListViewRewrite(content, fields) ==
    The({LayoutCleanup(r) : r \in {ListViewFields(Start(content, 0), fields)}})

RECURSIVE QuickActionFields(_, _)
QuickActionFields(sofar, fields) ==
    IF fields = <<>> THEN sofar
    ELSE The({QuickActionFields(r, Tail(fields)) :
                r \in {ThenBlocks(ThenBlocks(sofar, BlockPattern("layoutItems"),
                                             {ElementPattern("field", Head(fields))}),
                                  BlockPattern("quickActionLayoutItems"),
                                  {ElementPattern("field", Head(fields))})}})

QuickActionCleanup(r) ==
    Rewritten(r, CollapseBlankLines(
                    RemoveEmpty(
                      RemoveEmpty(r.content, "<quickActionLayoutColumns>",
                                  "</quickActionLayoutColumns>"),
                      "<layoutColumns>", "</layoutColumns>")))

QuickActionRewrite(content, fields) ==
    The({QuickActionCleanup(r) : r \in {QuickActionFields(Start(content, 0), fields)}})

\* FieldRemover.processQuickActions: inside a column that holds the field,
\* `<quickActionLayoutItems>[\s\S]*?<field>${fieldName}</field>[\s\S]*?</quickActionLayoutItems>`
ColumnItemPattern(fieldName) ==
    <<Lit("<quickActionLayoutItems>"), Lazy>> \o ElementPattern("field", fieldName)
        \o <<Lazy, Lit("</quickActionLayoutItems>")>>

\* match.replace(itemPattern, () => { removed++; return ''; }) for a column
\* that passes the test, the column as it is otherwise.
InColumn(column, fieldName) ==
    IF Test(ElementPattern("field", fieldName), column)
    THEN ReplaceAll(column, ColumnItemPattern(fieldName))
    ELSE [content |-> column, removed |-> 0]

RECURSIVE SumRemoved(_)
SumRemoved(results) ==
    IF results = <<>> THEN 0 ELSE Head(results).removed + SumRemoved(Tail(results))

\* content.replace(columnRegex, (match) => ...)
ReplaceInColumns(content, fieldName) ==
    The({[content |-> Splice(content, c.ms, [n \in 1..Len(c.ms) |-> c.rs[n].content], 1, 1),
          removed |-> SumRemoved(c.rs)] :
         c \in {[ms |-> ms, rs |-> [n \in 1..Len(ms) |-> InColumn(Span(content, ms[n]), fieldName)]] :
                  ms \in {Matches(content, BlockPattern("quickActionLayoutColumns"))}}})

ThenColumns(sofar, fieldName) ==
    The({Counted(ReplaceInColumns(r.content, fieldName), r.removed) : r \in {sofar}})

RECURSIVE ColumnFields(_, _)
ColumnFields(sofar, fields) ==
    IF fields = <<>> THEN sofar
    ELSE The({ColumnFields(r, Tail(fields)) :
                r \in {ThenColumns(ThenBlocks(sofar, BlockPattern("layoutItems"),
                                              {ElementPattern("field", Head(fields))}),
                                   Head(fields))}})

ColumnCleanup(r) ==
    Rewritten(r, CollapseBlankLines(
                    RemoveEmpty(r.content, "<quickActionLayoutColumns>",
                                "</quickActionLayoutColumns>")))

\* FieldRemover.processQuickActions on the content of one file.
ColumnRewrite(content, fields) ==
    The({ColumnCleanup(r) : r \in {ColumnFields(Start(content, 0), fields)}})

RECURSIVE ReportTypeFields(_, _, _)
ReportTypeFields(sofar, obj, fields) ==
    IF fields = <<>> THEN sofar
    ELSE The({ReportTypeFields(r, obj, Tail(fields)) :
                r \in {ThenBlocks(sofar, BlockPattern("columns"),
                                  {ElementPattern("field", Head(fields)),
                                   ElementPattern("field", FullFieldRef(obj, Head(fields)))})}})

\* isRelatedToObject: its last test, the case-folded content containing the
\* case-folded object name, is implied by the three before it.
IsRelatedToObject(content, obj) == Includes(content, obj)

\* /<sections>\s*<masterLabel>[^<]*<\/masterLabel>\s*<\/sections>/g
EmptySection ==
    <<Lit("<sections>"), Ws, Lit("<masterLabel>"), Text, Lit("</masterLabel>"), Ws,
      Lit("</sections>")>>

ReportTypeCleanup(r) ==
    Rewritten(r, CollapseBlankLines(ReplaceAll(r.content, EmptySection).content))

ReportTypeRewrite(content, obj, fields) ==
    IF ~IsRelatedToObject(content, obj)
    THEN Rewritten(Start(content, 0), content)
    ELSE The({ReportTypeCleanup(r) : r \in {ReportTypeFields(Start(content, 0), obj, fields)}})

(***************************************************************************)
(* FlexiPageCleaner.processFlexiPages, one file.                           *)
(***************************************************************************)
\* The four visibilityPatterns, in the order of the array.
VisibilityPatterns ==
    << BlockPattern("visibilityRule"),
       <<Lit("<componentInstanceProperties>"), Lazy, Lit("<n>"), Lit("visibilityRule"),
         Lit("</name>"), Lazy, Lit("</componentInstanceProperties>")>>,
       BlockPattern("filterCriteria"),
       BlockPattern("criteria") >>

\* The texts of all matches of all visibility patterns, in the order visited.
RECURSIVE VisibilityMatches(_, _)
VisibilityMatches(content, n) ==
    IF n > Len(VisibilityPatterns) THEN <<>>
    ELSE Spans(content, Matches(content, VisibilityPatterns[n]))
         \o VisibilityMatches(content, n + 1)

\* match.includes('visibilityRule'), match.includes('filterCriteria')
MentionsWord(match, word) ==
    \E j \in 1..Len(match) : match[j] \in {"<" \o word \o ">", "</" \o word \o ">", word}

WarningType(match) ==
    IF MentionsWord(match, "visibilityRule") THEN "visibilityRule"
    ELSE IF MentionsWord(match, "filterCriteria") THEN "filterCondition"
    ELSE "componentFilter"

\* match.includes(fieldName) || match.includes(fullFieldRef)
References(match, obj, field) ==
    Includes(match, field) \/ Includes(match, FullFieldRef(obj, field))

RECURSIVE Select(_, _, _)
Select(ms, obj, field) ==
    IF ms = <<>> THEN <<>>
    ELSE (IF References(Head(ms), obj, field) THEN <<Head(ms)>> ELSE <<>>)
         \o Select(Tail(ms), obj, field)

\* The matches that reference the field: each pushes one warning.
VisibilityHits(content, obj, field) == Select(VisibilityMatches(content, 1), obj, field)

FieldItemTests(obj, field) ==
    { ElementPattern("fieldItem", <<"Record", ".">> \o field),
      ElementPattern("fieldItem", field),
      ElementPattern("fieldItem", FullFieldRef(obj, field)) }

FieldNamePropTests(obj, field) ==
    { <<Lit("<n>"), Lit("fieldName"), Lit("</n>"), Lazy>> \o ElementPattern("value", v) :
        v \in {field, FullFieldRef(obj, field), <<"Record", ".">> \o field} }

\* match.includes('<n>visibilityRule</n>') || ... '<n>criteria</n>' || ... '<n>filter</n>'
IsVisibilityProperty(match) ==
    \E w \in {"visibilityRule", "criteria", "filter"} : Includes(match, <<"<n>", w, "</n>">>)

PropertyHits(content, ms, obj, field) ==
    [n \in 1..Len(ms) |->
        /\ ~IsVisibilityProperty(Span(content, ms[n]))
        /\ \E p \in FieldNamePropTests(obj, field) : Test(p, Span(content, ms[n]))]

RemoveProperties(content, ms, obj, field) ==
    RemoveHits(content, ms, PropertyHits(content, ms, obj, field))

\* Pattern 3: componentInstanceProperties, skipping the visibility-related ones.
ThenProperties(sofar, obj, field) ==
    The({Counted(RemoveProperties(r.content,
                                  Matches(r.content, BlockPattern("componentInstanceProperties")),
                                  obj, field),
                 r.removed) : r \in {sofar}})

\* The body of the loop for one field whose visibility check found nothing.
FlexiRemoveField(sofar, obj, field) ==
    ThenProperties(
        ThenBlocks(ThenBlocks(sofar, BlockPattern("itemInstances"), FieldItemTests(obj, field)),
                   BlockPattern("fieldInstance"), FieldItemTests(obj, field)),
        obj, field)

Warnings(hits, field) ==
    [j \in 1..Len(hits) |-> [field |-> field, type |-> WarningType(hits[j])]]

\* One iteration of the loop over the fields, hits being the visibility
\* matches that reference the field: st = [content, removed, warnings, skipped].
FlexiField(st, obj, field, hits) ==
    IF hits # <<>>
    THEN [st EXCEPT !.warnings = @ \o Warnings(hits, field), !.skipped = TRUE]
    ELSE [st EXCEPT !.content = FlexiRemoveField(st, obj, field).content,
                    !.removed = FlexiRemoveField(st, obj, field).removed]

RECURSIVE FlexiFields(_, _, _)
FlexiFields(st, obj, fields) ==
    IF fields = <<>> THEN st
    ELSE The({FlexiFields(r, obj, Tail(fields)) :
                r \in {FlexiField(st, obj, Head(fields),
                                  VisibilityHits(st.content, obj, Head(fields)))}})

FlexiCleanup(r) ==
    [blocks |-> r.content,
     content |-> CollapseBlankLines(
                    RemoveEmpty(
                      RemoveEmpty(r.content, "<itemInstances>", "</itemInstances>"),
                      "<fieldInstances>", "</fieldInstances>")),
     removed |-> r.removed, warnings |-> r.warnings, skipped |-> r.skipped]

\* if (content !== originalContent && removed > 0): the file is written.
FlexiWritten(originalContent, rw) == rw.content # originalContent /\ rw.removed > 0

FlexiRewrite(content, obj, fields) ==
    The({FlexiCleanup(r) :
           r \in {FlexiFields([content |-> content, removed |-> 0, warnings |-> <<>>,
                               skipped |-> FALSE], obj, fields)}})

(***************************************************************************)
(* FieldRemover.processFile: the text it computes.  fields are the         *)
(* fieldsToRemove, each an Object.Field reference.                         *)
(***************************************************************************)
Bool == {"true", "false"}
EditableElement == <<Lit("<editable>"), Alt(Bool), Lit("</editable>")>>
ReadableElement == <<Lit("<readable>"), Alt(Bool), Lit("</readable>")>>

\* The four fieldPermissions patterns for one field, in the order of the array.
FieldPermissionPatterns(field) ==
    LET open == <<Ws, Lit("<fieldPermissions>"), Ws>>
        close == <<Ws, Lit("</fieldPermissions>")>>
        f == ElementPattern("field", field)
        e == EditableElement
        r == ReadableElement
    IN  << open \o e \o <<Ws>> \o f \o <<Ws>> \o r \o close,
           open \o f \o <<Ws>> \o e \o <<Ws>> \o r \o close,
           open \o r \o <<Ws>> \o e \o <<Ws>> \o f \o close,
           open \o r \o <<Ws>> \o f \o <<Ws>> \o e \o close >>

RECURSIVE PermissionPatterns(_, _, _)
PermissionPatterns(sofar, pats, n) ==
    IF n > Len(pats) THEN sofar
    ELSE The({PermissionPatterns(r, pats, n + 1) : r \in {ThenAll(sofar, pats[n])}})

RECURSIVE PermissionFields(_, _)
PermissionFields(sofar, fields) ==
    IF fields = <<>> THEN sofar
    ELSE The({PermissionFields(r, Tail(fields)) :
                r \in {PermissionPatterns(sofar, FieldPermissionPatterns(Head(fields)), 1)}})

\* this.fieldsToRemove.some(f => content.includes(f))
HasFields(content, fields) == \E n \in 1..Len(fields) : Includes(content, fields[n])

Unchanged(r) == Rewritten(r, r.content)

ProcessFileRewrite(content, fields) ==
    IF ~HasFields(content, fields)
    THEN Unchanged(Start(content, 0))
    ELSE The({Unchanged(r) : r \in {PermissionFields(Start(content, 0), fields)}})

(***************************************************************************)
(* Fixtures: a file text is a run of at most MaxSegs segments.             *)
(***************************************************************************)
BlockKinds == {"layout", "recordType", "listView", "quickAction", "reportType"}
Kinds == BlockKinds \cup {"flexi", "profile", "column"}

\* The block and inner tag each block matcher looks for.
BlockTag(kind) ==
    CASE kind = "layout" -> "layoutItems"
      [] kind = "recordType" -> "picklistValues"
      [] kind = "listView" -> "filters"
      [] kind = "quickAction" -> "quickActionLayoutItems"
      [] kind = "reportType" -> "columns"

InnerTag(kind) == IF kind = "recordType" THEN "picklist" ELSE "field"

Element(tag, value) == <<"<" \o tag \o ">">> \o value \o <<"</" \o tag \o ">">>

Block(kind, value) ==
    <<"<" \o BlockTag(kind) \o ">">> \o Element(InnerTag(kind), value)
        \o <<"</" \o BlockTag(kind) \o ">">>

PermissionBlock(field) ==
    <<"<fieldPermissions>">> \o Element("editable", <<"true">>)
        \o Element("field", FullFieldRef(ObjectName, field))
        \o Element("readable", <<"false">>) \o <<"</fieldPermissions>">>

\* A column of a quick action with an item for each of the fields.
RECURSIVE Items(_)
Items(fields) ==
    IF fields = <<>> THEN <<>> ELSE Block("quickAction", Head(fields)) \o Items(Tail(fields))

Column(fields) ==
    <<"<quickActionLayoutColumns>">> \o Items(fields) \o <<"</quickActionLayoutColumns>">>

VisibilityRule(field) ==
    <<"<visibilityRule>">> \o Element("criteria", <<"Record", ".">> \o field)
        \o <<"</visibilityRule>">>

ItemInstance(field, rule) ==
    <<"<itemInstances>">> \o Element("fieldItem", <<"Record", ".">> \o field) \o rule
        \o <<"</itemInstances>">>

SegIds(kind) ==
    CASE kind \in BlockKinds -> {"T", "O", "Q", "B", "n", "<", ">"}
      [] kind = "flexi" -> {"iA", "iB", "iAvB", "iBvA", "vA", "vB", "rA", "n"}
      [] kind = "profile" -> {"T", "F", "E", "R", "O", "B", "n", "po", "pc"}
      [] kind = "column" -> {"cT", "cO", "cOT", "cTO", "cBT", "cTB", "cTT", "n"}

SegText(kind, id) ==
    CASE id = "n" -> <<NL>>
      [] kind \in BlockKinds /\ id = "T" -> Block(kind, FieldA)
      [] kind \in BlockKinds /\ id = "O" -> Block(kind, FieldOther)
      [] kind \in BlockKinds /\ id = "Q" -> Block(kind, FullFieldRef(ObjectName, FieldA))
      [] kind \in BlockKinds /\ id = "B" -> Block(kind, FieldB)
      [] kind \in BlockKinds /\ id = "<" -> <<"<" \o BlockTag(kind) \o ">">>
      [] kind \in BlockKinds /\ id = ">" -> <<"</" \o BlockTag(kind) \o ">">>
      [] kind = "flexi" /\ id = "iA" -> ItemInstance(FieldA, <<>>)
      [] kind = "flexi" /\ id = "iB" -> ItemInstance(FieldB, <<>>)
      \* a field shown only when a rule on the other field holds
      [] kind = "flexi" /\ id = "iAvB" -> ItemInstance(FieldA, VisibilityRule(FieldB))
      [] kind = "flexi" /\ id = "iBvA" -> ItemInstance(FieldB, VisibilityRule(FieldA))
      [] kind = "flexi" /\ id = "vA" -> VisibilityRule(FieldA)
      [] kind = "flexi" /\ id = "vB" -> VisibilityRule(FieldB)
      \* a rule that names the field outside any <criteria>
      [] kind = "flexi" /\ id = "rA" ->
            <<"<visibilityRule>">> \o Element("leftValue", <<"Record", ".">> \o FieldA)
                \o <<"</visibilityRule>">>
      [] kind = "column" /\ id = "cT" -> Column(<<FieldA>>)
      [] kind = "column" /\ id = "cO" -> Column(<<FieldOther>>)
      [] kind = "column" /\ id = "cOT" -> Column(<<FieldOther, FieldA>>)
      [] kind = "column" /\ id = "cTO" -> Column(<<FieldA, FieldOther>>)
      [] kind = "column" /\ id = "cBT" -> Column(<<FieldB, FieldA>>)
      [] kind = "column" /\ id = "cTB" -> Column(<<FieldA, FieldB>>)
      [] kind = "column" /\ id = "cTT" -> Column(<<FieldA, FieldA>>)
      [] kind = "profile" /\ id = "T" -> PermissionBlock(FieldA)
      [] kind = "profile" /\ id = "F" ->
            <<"<fieldPermissions>">> \o Element("field", FullFieldRef(ObjectName, FieldA))
                \o Element("editable", <<"true">>) \o Element("readable", <<"true">>)
                \o <<"</fieldPermissions>">>
      \* the children in the orders editable, readable, field and field,
      \* readable, editable
      [] kind = "profile" /\ id = "E" ->
            <<"<fieldPermissions>">> \o Element("editable", <<"true">>)
                \o Element("readable", <<"true">>)
                \o Element("field", FullFieldRef(ObjectName, FieldA))
                \o <<"</fieldPermissions>">>
      [] kind = "profile" /\ id = "R" ->
            <<"<fieldPermissions>">> \o Element("field", FullFieldRef(ObjectName, FieldA))
                \o Element("readable", <<"true">>) \o Element("editable", <<"true">>)
                \o <<"</fieldPermissions>">>
      [] kind = "profile" /\ id = "O" -> PermissionBlock(FieldOther)
      [] kind = "profile" /\ id = "B" -> PermissionBlock(FieldB)
      \* the two halves of a fieldPermissions block for FieldA
      [] kind = "profile" /\ id = "po" ->
            <<"<fieldPermissions>">> \o Element("editable", <<"true">>)
      [] kind = "profile" /\ id = "pc" ->
            Element("field", FullFieldRef(ObjectName, FieldA))
                \o Element("readable", <<"false">>) \o <<"</fieldPermissions>">>

RECURSIVE Flatten(_, _)
Flatten(kind, segs) ==
    IF segs = <<>> THEN <<>> ELSE SegText(kind, Head(segs)) \o Flatten(kind, Tail(segs))

SeqsUpTo(S, n) == UNION {[1..m -> S] : m \in 0..n}

FieldLists == {<<FieldA>>, <<FieldA, FieldB>>, <<FieldB, FieldA>>}

\* `${this.objectName}.${sanitized}` for each field
Qualified(fields) == [n \in 1..Len(fields) |-> FullFieldRef(ObjectName, fields[n])]

(***************************************************************************)
(* HistoryManager (src/utils/historyManager.ts).  The history is the       *)
(* array stored under 'cleanforce.history', most recent entry first.       *)
(***************************************************************************)
\* The fallback of addEntry's limit.
DefaultMaxHistoryItems == 50

\* config.get<number>('maxHistoryItems') || 50
MaxItems(setting) ==
    IF setting = 0 THEN DefaultMaxHistoryItems ELSE setting

\* if (history.length > maxItems) history.splice(maxItems)
Truncate(h, maxItems) == IF Len(h) > maxItems THEN SubSeq(h, 1, maxItems) ELSE h

\* history.unshift(entry), then the limit, then saveHistory
addEntry(h, entry, setting) == Truncate(<<entry>> \o h, MaxItems(setting))

NoEntry == [id |-> 0]

\* No undoLast is waiting for its confirmation.
NoUndo == [open |-> FALSE]

\* history.length > 0 ? history[0] : undefined
getLastEntry(h) == IF Len(h) > 0 THEN h[1] ELSE NoEntry

\* A details field that the entry does not carry (undefined), or carries.
NoList == [defined |-> FALSE, items |-> <<>>]
List(items) == [defined |-> TRUE, items |-> items]

\* history.shift()
Shift(h) == IF h = <<>> THEN h ELSE Tail(h)

(***************************************************************************)
(* BackupManager (utils/backupManager.ts).  A world w holds what its       *)
(* methods read and write: the workspace files, the backup copies, the     *)
(* backup-mapping.json of each backup folder and the instance's            *)
(* backupFolder; backupPath and restored hold the last results.            *)
(***************************************************************************)
Missing == [exists |-> FALSE, content |-> <<>>]
File(content) == [exists |-> TRUE, content |-> content]

\* The default of backupFolder and of the backupLocation setting.
DefaultBackupFolder == ".cleanforce/backups"
\* A backupLocation that names a file of the workspace: no directory can be
\* made under it, and mkdirSync throws.
BlockedFolder == "Admin.profile-meta.xml"
Folders == {DefaultBackupFolder, "backups2", BlockedFolder}

\* A map with no key; a mapping file that does not exist reads as this.
EmptyMap == [k \in {} |-> <<>>]

Put(f, k, v) == [x \in DOMAIN f \cup {k} |-> IF x = k THEN v ELSE f[x]]

\* undefined, as a backup path
NoPath == <<>>

\* path.join(workspace, backupFolder, timestamp, relativePath)
BackupPath(folder, stamp, filePath) == <<folder, stamp, filePath>>

\* storeBackupMapping keeping the entry a path already has.
storeBackupMappingOnce(mappings, folder, originalPath, backupPath) ==
    IF originalPath \in DOMAIN mappings[folder] THEN mappings
    ELSE [mappings EXCEPT ![folder] = Put(@, originalPath, backupPath)]

\* mappings[originalPath] = backupPath in the mapping file of the folder
storeBackupMapping(mappings, folder, originalPath, backupPath) ==
    [mappings EXCEPT ![folder] = Put(@, originalPath, backupPath)]

\* createBackup once this.backupFolder is read from the setting: the copy
\* throws when the file does not exist, mkdirSync when the folder is under a
\* file, and undefined is returned.
createBackupIn(w, filePath, folder, stamp) ==
    IF ~w.files[filePath].exists \/ folder = BlockedFolder
    THEN [w EXCEPT !.backupFolder = folder, !.backupPath = NoPath]
    ELSE [w EXCEPT !.backupFolder = folder,
                   !.backups = Put(@, BackupPath(folder, stamp, filePath),
                                   w.files[filePath].content),
                   !.mappings = storeBackupMapping(@, folder, filePath,
                                                   BackupPath(folder, stamp, filePath)),
                   !.backupPath = BackupPath(folder, stamp, filePath)]

\* config.get<string>('backupLocation') || '.cleanforce/backups'
BackupFolderOf(location) == IF location = "" THEN DefaultBackupFolder ELSE location

createBackup(w, filePath, location, stamp) ==
    createBackupIn(w, filePath, BackupFolderOf(location), stamp)

\* getBackupPath reading the mapping file of the default folder, whatever
\* folder the last backup went to.
getBackupPathDefault(w, originalPath) ==
    IF originalPath \in DOMAIN w.mappings[DefaultBackupFolder]
    THEN w.mappings[DefaultBackupFolder][originalPath]
    ELSE NoPath

getBackupPath(w, originalPath) ==
    IF originalPath \in DOMAIN w.mappings[w.backupFolder]
    THEN w.mappings[w.backupFolder][originalPath]
    ELSE NoPath

restoreFrom(w, originalPath, backupPath) ==
    IF backupPath = NoPath \/ backupPath \notin DOMAIN w.backups
    THEN [w EXCEPT !.restored = FALSE]
    ELSE [w EXCEPT !.files[originalPath] = File(w.backups[backupPath]), !.restored = TRUE]

restoreBackup(w, originalPath) == restoreFrom(w, originalPath, getBackupPath(w, originalPath))

VARIABLES
    tIn,               \* the fixture and the requested fields of a rewriter run
    tOut,              \* the results of the passes run on it so far, oldest first
    files,             \* path -> content of the workspace file, or Missing
    backups,           \* backup path -> content of the backup copy
    mappings,          \* backup folder -> (original path -> backup path)
    backupFolder,      \* BackupManager.backupFolder of the live instance
    backupLocation,    \* setting cleanforce.backupLocation
    createBackupOn,    \* setting cleanforce.createBackup
    clock,             \* the time, in the unit of the backup timestamp
    history,           \* the stored history, most recent first
    maxHistoryItems,   \* setting cleanforce.maxHistoryItems
    undoPending,       \* the entry undoLast read, while its confirmation is open
    typed,             \* the names the user typed into the running command
    ops,               \* number of operations run so far (the next entry's id)
    streak,            \* addEntry calls since the history was empty, setting unchanged
    snap,              \* path -> what createBackup last saved for it: the content if it is
                       \* restorable, how many backups of it are, and the last backup made
    allBackedUp,       \* every write and delete so far followed a backup of the file
    lastOp             \* what the last operation did (a record of its calls)

textVars == <<tIn, tOut>>
diskVars == <<files, backups, mappings, backupFolder, backupLocation, clock, snap>>
histVars == <<history, maxHistoryItems, undoPending, streak>>
\* All but the two variables of a rewriter run.
otherVars == <<files, backups, mappings, backupFolder, backupLocation, createBackupOn, clock,
               history, maxHistoryItems, undoPending, typed, ops, streak, snap, allBackedUp, lastOp>>
vars == <<tIn, tOut, files, backups, mappings, backupFolder, backupLocation, createBackupOn,
          clock, history, maxHistoryItems, undoPending, typed, ops, streak, snap, allBackedUp, lastOp>>

NoOp == [name |-> "none"]

\* The parts of the state a specification leaves alone.
TextIdle == tIn = <<>> /\ tOut = <<>>
DiskIdle ==
    /\ files = <<>> /\ backups = <<>> /\ mappings = <<>>
    /\ backupFolder = "" /\ backupLocation = "" /\ clock = 0 /\ snap = <<>>
HistIdle == history = <<>> /\ maxHistoryItems = DefaultMaxHistoryItems /\ undoPending = NoUndo /\ streak = 0
InputIdle == typed = <<>> /\ allBackedUp = TRUE

(***************************************************************************)
(* SpecHistory: entries are added to the history, the setting changes, the *)
(* history is cleared.                                                     *)
(***************************************************************************)
MaxSetting == 3
MaxAdds == 56

\* The values of the setting: small ones, and the documented default.
Settings == (0..MaxSetting) \cup {DefaultMaxHistoryItems}

InitHistory ==
    /\ history = <<>>
    /\ maxHistoryItems \in Settings
    /\ undoPending = NoUndo
    /\ streak = 0
    /\ ops = 0
    /\ lastOp = NoOp
    /\ createBackupOn = TRUE
    /\ TextIdle /\ DiskIdle /\ InputIdle

AddEntry ==
    /\ ops < MaxAdds
    /\ history' = addEntry(history, [id |-> ops + 1], maxHistoryItems)
    /\ ops' = ops + 1
    /\ streak' = IF streak < 0 THEN streak ELSE streak + 1
    /\ lastOp' = [name |-> "addEntry", id |-> ops + 1]
    /\ UNCHANGED <<textVars, diskVars, allBackedUp, createBackupOn, maxHistoryItems, undoPending, typed>>

\* The user edits the setting; an edit while entries are stored ends the streak.
SetMaxHistoryItems ==
    /\ \E v \in Settings \ {maxHistoryItems} : maxHistoryItems' = v
    /\ streak' = IF history = <<>> THEN 0 ELSE -1
    /\ lastOp' = [name |-> "setting"]
    /\ UNCHANGED <<textVars, diskVars, allBackedUp, createBackupOn, history, undoPending, typed, ops>>

\* clearHistory: globalState.update(historyKey, [])
ClearHistory ==
    /\ history # <<>>
    /\ history' = <<>>
    /\ streak' = 0
    /\ lastOp' = [name |-> "clearHistory"]
    /\ UNCHANGED <<textVars, diskVars, allBackedUp, createBackupOn, maxHistoryItems, undoPending, typed, ops>>

NextHistory == AddEntry \/ SetMaxHistoryItems \/ ClearHistory

SpecHistory == InitHistory /\ [][NextHistory]_vars

\* The entries with the n highest ids, the newest first.
Newest(n) == [i \in 1..n |-> ops - i + 1]

Ids(h) == [i \in 1..Len(h) |-> h[i].id]

\* C4: after addEntry the history is no longer than maxHistoryItems and its
\* head is the entry just added; after maxHistoryItems + 5 insertions into an
\* empty history it holds exactly the maxHistoryItems newest entries.
C4_BoundedMostRecentFirst ==
    /\ lastOp.name = "addEntry" =>
          /\ Len(history) <= maxHistoryItems
          /\ history # <<>> /\ history[1].id = lastOp.id
    /\ streak = maxHistoryItems + 5 => Ids(history) = Newest(maxHistoryItems)

\* The same with the limit addEntry computes, which is 50 also when the
\* setting is 0.
HistoryBoundedByMaxItems ==
    /\ lastOp.name = "addEntry" =>
          /\ Len(history) <= MaxItems(maxHistoryItems)
          /\ history # <<>> /\ history[1].id = lastOp.id
    /\ streak = MaxItems(maxHistoryItems) + 5 => Ids(history) = Newest(MaxItems(maxHistoryItems))

(***************************************************************************)
(* SpecBackup: the methods of one BackupManager are called on two files,   *)
(* which are also overwritten and deleted; the setting changes; the        *)
(* extension is activated again (a new BackupManager).                     *)
(***************************************************************************)
MaxCalls == 4
MaxClock == 1

BackupPaths == {"Admin.profile-meta.xml", "Case-Case Layout.layout-meta.xml"}
Contents == {<<>>, <<"<Profile>">>}

NoSnap == [saved |-> FALSE, content |-> <<>>]
Snap(content) == [saved |-> TRUE, content |-> content]

\* The most recent createBackup of a path that returned a backup path: the
\* folder of its mapping file, the backup path and the content it copied.
NoLast == [made |-> FALSE, folder |-> "", path |-> NoPath, content |-> <<>>]
Last(w, content) ==
    [made |-> TRUE, folder |-> w.backupFolder, path |-> w.backupPath, content |-> content]

\* Nothing of a path is restorable on this instance; its last backup stays.
Forgotten(known) == [saved |-> FALSE, content |-> <<>>, count |-> 0, last |-> known.last]
Expected(known) == [saved |-> known.saved, content |-> known.content]

World == [files |-> files, backups |-> backups, mappings |-> mappings,
          backupFolder |-> backupFolder, backupPath |-> NoPath, restored |-> FALSE]

\* The world w becomes the state of the disk and of the instance.
Becomes(w) ==
    /\ files' = w.files
    /\ backups' = w.backups
    /\ mappings' = w.mappings
    /\ backupFolder' = w.backupFolder

InitBackup ==
    /\ files \in [BackupPaths -> {File(c) : c \in Contents}]
    /\ backups = EmptyMap
    /\ mappings = [f \in Folders |-> EmptyMap]
    /\ backupFolder = DefaultBackupFolder
    /\ backupLocation = ""
    /\ clock = 0
    /\ snap = [p \in BackupPaths |-> Forgotten([last |-> NoLast])]
    /\ ops = 0 /\ lastOp = NoOp /\ createBackupOn = TRUE
    /\ TextIdle /\ HistIdle /\ InputIdle

\* What is restorable after createBackup(filePath) made w of the state: the
\* saved content of filePath, and what was restorable if the folder is the same.
SnapAfter(w, filePath) ==
    [p \in BackupPaths |->
        IF p = filePath /\ w.backupPath # NoPath
        THEN [saved |-> TRUE, content |-> files[p].content,
              count |-> (IF w.backupFolder = backupFolder THEN snap[p].count ELSE 0) + 1,
              last |-> Last(w, files[p].content)]
        ELSE IF w.backupFolder = backupFolder THEN snap[p] ELSE Forgotten(snap[p])]

Created(w, filePath) ==
    /\ Becomes(w)
    /\ snap' = SnapAfter(w, filePath)
    /\ lastOp' = [name |-> "createBackup", path |-> filePath, ok |-> w.backupPath # NoPath]

BkCreateBackup ==
    /\ ops < MaxCalls
    /\ \E p \in BackupPaths : Created(createBackup(World, p, backupLocation, clock), p)
    /\ ops' = ops + 1
    /\ UNCHANGED <<textVars, histVars, typed, allBackedUp, createBackupOn, backupLocation, clock>>

Restored(w, originalPath) ==
    /\ Becomes(w)
    /\ lastOp' = [name |-> "restoreBackup", path |-> originalPath, ok |-> w.restored,
                  expected |-> Expected(snap[originalPath]),
                  backups |-> snap[originalPath].count,
                  last |-> snap[originalPath].last, after |-> lastOp.name]

BkRestoreBackup ==
    /\ ops < MaxCalls
    /\ \E p \in BackupPaths : Restored(restoreBackup(World, p), p)
    /\ ops' = ops + 1
    /\ UNCHANGED <<textVars, histVars, typed, allBackedUp, createBackupOn, backupLocation, clock, snap>>

\* Something writes the file.
BkOverwrite ==
    /\ ops < MaxCalls
    /\ \E p \in BackupPaths, c \in Contents :
         /\ files[p] # File(c)
         /\ files' = [files EXCEPT ![p] = File(c)]
    /\ ops' = ops + 1
    /\ lastOp' = [name |-> "write"]
    /\ UNCHANGED <<textVars, histVars, typed, allBackedUp, createBackupOn, backupLocation, clock, snap,
                   backups, mappings, backupFolder>>

\* Something deletes the file.
BkDelete ==
    /\ ops < MaxCalls
    /\ \E p \in BackupPaths :
         /\ files[p].exists
         /\ files' = [files EXCEPT ![p] = Missing]
    /\ ops' = ops + 1
    /\ lastOp' = [name |-> "unlink"]
    /\ UNCHANGED <<textVars, histVars, typed, allBackedUp, createBackupOn, backupLocation, clock, snap,
                   backups, mappings, backupFolder>>

BkSetBackupLocation ==
    /\ \E loc \in {"", "backups2"} \ {backupLocation} : backupLocation' = loc
    /\ lastOp' = [name |-> "setting"]
    /\ UNCHANGED <<textVars, histVars, typed, allBackedUp, createBackupOn, clock, snap, ops,
                   files, backups, mappings, backupFolder>>

\* extension.ts activate: backupManager = new BackupManager()
BkNewInstance ==
    /\ backupFolder' = DefaultBackupFolder
    /\ snap' = [p \in BackupPaths |-> Forgotten(snap[p])]
    /\ lastOp' = [name |-> "activate"]
    /\ UNCHANGED <<textVars, histVars, typed, allBackedUp, createBackupOn, clock, ops,
                   files, backups, mappings, backupLocation>>

Tick ==
    /\ clock < MaxClock
    /\ clock' = clock + 1
    /\ UNCHANGED <<textVars, histVars, typed, allBackedUp, createBackupOn, ops, lastOp, snap,
                   files, backups, mappings, backupFolder, backupLocation>>

NextBackup ==
    \/ BkCreateBackup
    \/ BkRestoreBackup
    \/ BkOverwrite
    \/ BkDelete
    \/ BkSetBackupLocation
    \/ BkNewInstance
    \/ Tick

SpecBackup == InitBackup /\ [][NextBackup]_vars

\* C3: restoreBackup(path), called after createBackup(path) saved the file
\* on the same BackupManager, whatever was written to the file since,
\* returns true and leaves the file with the content createBackup saved.
C3_RoundTrip ==
    (lastOp.name = "restoreBackup" /\ lastOp.expected.saved)
        => /\ lastOp.ok
           /\ files[lastOp.path] = File(lastOp.expected.content)

\* An empty file was backed up, overwritten, and restored to the empty file.
C3_Witness ==
    /\ ops = 3
    /\ lastOp.name = "restoreBackup"
    /\ lastOp.expected = Snap(<<>>)
    /\ lastOp.ok
    /\ files[lastOp.path] = File(<<>>)

\* C21: the mapping file of a backup folder holds, for a path, the backup
\* made by the most recent createBackup of that path that succeeded, with
\* the content it copied; and restoreBackup(path) after two or more backups
\* of the path on the same instance returns true and leaves the file with
\* the content the last of them copied.
C21_LastBackupWins ==
    /\ \A p \in BackupPaths :
          snap[p].last.made =>
             /\ p \in DOMAIN mappings[snap[p].last.folder]
             /\ mappings[snap[p].last.folder][p] = snap[p].last.path
             /\ backups[snap[p].last.path] = snap[p].last.content
    /\ (lastOp.name = "restoreBackup" /\ lastOp.backups >= 2) =>
          /\ lastOp.ok
          /\ files[lastOp.path] = File(lastOp.expected.content)

\* C27: restoreBackup(path), called on a new BackupManager that has made no
\* backup yet, finds the last backup createBackup made of the path under
\* the backupLocation that is still set, also when that is not the default
\* folder: it returns true and the file holds the content backed up.
C27_NewInstanceFindsBackup ==
    (/\ lastOp.name = "restoreBackup"
     /\ lastOp.after = "activate"
     /\ lastOp.last.made
     /\ lastOp.last.folder = BackupFolderOf(backupLocation)) =>
        /\ lastOp.ok
        /\ files[lastOp.path] = File(lastOp.last.content)

\* The same for a backup made under the default backupLocation.
NewInstanceFindsBackupInDefaultFolder ==
    (/\ lastOp.name = "restoreBackup"
     /\ lastOp.after = "activate"
     /\ lastOp.last.made
     /\ lastOp.last.folder = DefaultBackupFolder) =>
        /\ lastOp.ok
        /\ files[lastOp.path] = File(lastOp.last.content)

\* A file was backed up empty, overwritten, backed up again and restored:
\* it holds what the second backup copied.
C21_Witness ==
    /\ lastOp.name = "restoreBackup"
    /\ lastOp.backups = 2
    /\ ops = 4
    /\ lastOp.expected.content = <<"<Profile>">>
    /\ files[lastOp.path] = File(<<"<Profile>">>)
    /\ \E b \in DOMAIN backups : b[3] = lastOp.path /\ backups[b] = <<>>

(***************************************************************************)
(* The commands on a workspace of three files: a profile, a page layout of *)
(* the object and the metadata file of its field Name__c.  A run r is the  *)
(* world of the BackupManager together with what the command has done so   *)
(* far: its calls, the files it visited, modifiedFiles and totalRemoved.   *)
(***************************************************************************)
ProfilePath == "Admin.profile-meta.xml"
LayoutPath == "Case-Case Layout.layout-meta.xml"
FieldPath == "objects/Case/fields/Name__c.field-meta.xml"
Paths == {ProfilePath, LayoutPath, FieldPath}

ApexName == <<"MyClass">>

\* A fieldPermissions block that none of the four patterns of processFile
\* matches: it has no <readable>.
PartialPermissionBlock(field) ==
    <<"<fieldPermissions>">> \o Element("editable", <<"true">>)
        \o Element("field", FullFieldRef(ObjectName, field)) \o <<"</fieldPermissions>">>

ClassAccess(name) ==
    <<"<classAccesses>">> \o Element("apexClass", name) \o Element("enabled", <<"true">>)
        \o <<"</classAccesses>">>

\* A class that is not asked for.
OtherApex == <<"OtherClass">>

ProfileTexts ==
    { PermissionBlock(FieldA) \o PermissionBlock(FieldB) \o ClassAccess(ApexName),
      PartialPermissionBlock(FieldA) \o PermissionBlock(FieldB) }

LayoutText == Block("layout", FieldA) \o <<NL>> \o Block("layout", FieldB)

FieldText == <<"<CustomField>">>

Run0 == [files |-> files, backups |-> backups, mappings |-> mappings,
         backupFolder |-> backupFolder, backupPath |-> NoPath, restored |-> FALSE,
         events |-> <<>>, visits |-> <<>>, modified |-> <<>>, removed |-> 0,
         got |-> 0, changed |-> FALSE, thrown |-> FALSE, caught |-> <<>>,
         references |-> <<>>]

Log(r, e) == [r EXCEPT !.events = Append(@, e)]

LogBackup(r, path) == Log(r, <<"createBackup", path, r.backupPath # NoPath>>)

\* if (config.get('createBackup')) await this.backupManager.createBackup(path)
\* The time of the backup is that of the command, and commands are run at
\* different times: the number of the command stands for it.
Backup(r, path) ==
    IF createBackupOn THEN LogBackup(createBackup(r, path, backupLocation, ops), path)
    ELSE r

\* fs.writeFileSync(path, content)
Write(r, path, content) == Log([r EXCEPT !.files[path] = File(content)], <<"write", path>>)

\* fs.unlinkSync(path)
Unlink(r, path) == Log([r EXCEPT !.files[path] = Missing], <<"unlink", path>>)

\* totalRemoved += removed; filesModified++; modifiedFiles.push(path)
Count(r, path, removed) ==
    [r EXCEPT !.removed = @ + removed, !.modified = Append(@, path)]

\* The record of one file of the loop: whether the content computed for it
\* differs from the content read, the calls made for it, whether it was
\* counted as modified.
Visited(before, after, path) ==
    [after EXCEPT !.visits =
        Append(@, [path |-> path, changed |-> after.changed,
                   calls |-> SubSeq(after.events, Len(before.events) + 1, Len(after.events)),
                   counted |-> Len(after.modified) > Len(before.modified)])]

\* The same, the write and the count made only when the backup was.
BackupThenWriteCount(r, path, rw) ==
    IF rw.content # r.files[path].content
    THEN [(IF Backup(r, path).backupPath # NoPath
           THEN Count(Write(Backup(r, path), path, rw.content), path, rw.removed)
           ELSE Backup(r, path))
            EXCEPT !.changed = TRUE]
    ELSE [r EXCEPT !.changed = FALSE]

\* if (content !== originalContent) { backup; write; count }
BackupWriteCount(r, path, rw) ==
    IF rw.content # r.files[path].content
    THEN [Count(Write(Backup(r, path), path, rw.content), path, rw.removed)
            EXCEPT !.changed = TRUE]
    ELSE [r EXCEPT !.changed = FALSE]

\* LayoutCleaner.processLayouts, and FieldRemover.processLayouts: one file.
\* A file that cannot be read is skipped (the catch of the loop body).
CleanLayout(r, path, fields) ==
    IF ~r.files[path].exists THEN r
    ELSE Visited(r, BackupWriteCount(r, path, LayoutRewrite(r.files[path].content, fields)),
                 path)

\* field.split('.')[1]
SecondPart(field) ==
    SubSeq(field,
           Min({i \in 1..Len(field) : field[i] = "."}) + 1,
           Min({i \in 1..(Len(field) + 1) :
                  /\ i > Min({j \in 1..Len(field) : field[j] = "."})
                  /\ (i = Len(field) + 1 \/ field[i] = ".")}) - 1)

FieldNames(fields) == [n \in 1..Len(fields) |-> SecondPart(fields[n])]

\* FieldRemover.processFile once the file is read and holds one of the fields
\* and the backup is made: the write, and the count it returns.
WriteIfChanged(r, path, rw) ==
    IF rw.content # r.files[path].content
    THEN [Write(r, path, rw.content) EXCEPT !.changed = TRUE, !.got = rw.removed]
    ELSE [r EXCEPT !.changed = FALSE, !.got = rw.removed]

processFile(r, path, fields) ==
    IF ~r.files[path].exists \/ ~HasFields(r.files[path].content, fields)
    THEN [r EXCEPT !.changed = FALSE, !.got = 0]
    ELSE WriteIfChanged(Backup(r, path), path,
                        ProcessFileRewrite(r.files[path].content, fields))

\* if (result.removed > 0) { totalRemoved += ...; filesModified++; push }
CountIfRemoved(r, path) == IF r.got > 0 THEN Count(r, path, r.got) ELSE r

\* processPermissionSetsAndProfiles: the loop body for one file.
ProcessProfile(r, path, fields) ==
    Visited(r, CountIfRemoved(processFile(r, path, fields), path), path)

\* `\\s*<${parentTag}>[\\s\\S]*?<${childTag}>${escapeRegex(name)}</${childTag}>[\\s\\S]*?</${parentTag}>`
ReferencePattern(name, parentTag, childTag) ==
    <<Ws, Lit("<" \o parentTag \o ">"), Lazy>> \o ElementPattern(childTag, name)
        \o <<Lazy, Lit("</" \o parentTag \o ">")>>

RECURSIVE RemoveReferences(_, _, _, _)
RemoveReferences(sofar, names, parentTag, childTag) ==
    IF names = <<>> THEN sofar
    ELSE RemoveReferences(ThenAll(sofar, ReferencePattern(Head(names), parentTag, childTag)),
                          Tail(names), parentTag, childTag)

\* if (content !== originalContent) { backup; write; totalRemoved += removed }
BackupWrite(r, path, rw) ==
    IF rw.content # r.files[path].content
    THEN [Write(Backup(r, path), path, rw.content)
            EXCEPT !.changed = TRUE, !.removed = @ + rw.removed]
    ELSE [r EXCEPT !.changed = FALSE]

\* removeMetadataReferences: the loop body for one file.
RemoveMetadataFile(r, path, names, parentTag, childTag) ==
    Visited(r, BackupWrite(r, path,
                           RemoveReferences(Start(r.files[path].content, 0), names,
                                            parentTag, childTag)),
            path)

\* if (content !== originalContent) { write; totalRemoved += removed }
WriteOnly(r, path, rw) ==
    IF rw.content # r.files[path].content
    THEN [Write(r, path, rw.content) EXCEPT !.changed = TRUE, !.removed = @ + rw.removed]
    ELSE [r EXCEPT !.changed = FALSE]

\* removeLayoutItems: the loop body for one file.
RemoveLayoutFile(r, path, fields) ==
    Visited(r, WriteOnly(r, path,
                         RemoveReferences(Start(r.files[path].content, 0), fields,
                                          "layoutItems", "field")),
            path)

\* FieldFileDeleter: try { backup; unlink; deleted++ }
DeleteFile(r, path) == [Unlink(Backup(r, path), path) EXCEPT !.removed = @ + 1]

\* undoLast: the restores, each as far as restoreBackup's first failure.
RECURSIVE RestoreUntilFailure(_, _)
RestoreUntilFailure(r, paths) ==
    IF paths = <<>> THEN r
    ELSE IF ~restoreBackup(r, Head(paths)).restored
         THEN Log(restoreBackup(r, Head(paths)), <<"restoreBackup", Head(paths), FALSE>>)
         ELSE RestoreUntilFailure(
                 Log(restoreBackup(r, Head(paths)), <<"restoreBackup", Head(paths), TRUE>>),
                 Tail(paths))

LogRestore(r, path) == Log(r, <<"restoreBackup", path, r.restored>>)

\* for (const filePath of filesModified) await backupManager.restoreBackup(filePath)
RECURSIVE RestoreEach(_, _)
RestoreEach(r, paths) ==
    IF paths = <<>> THEN r
    ELSE RestoreEach(LogRestore(restoreBackup(r, Head(paths)), Head(paths)), Tail(paths))

\* Every write and delete among the calls follows a backup of the same file
\* that returned a backup path.
WritesBackedUp(events) ==
    \A i \in 1..Len(events) :
        events[i][1] \in {"write", "unlink"} =>
            \E j \in 1..(i - 1) : events[j] = <<"createBackup", events[i][2], TRUE>>

(***************************************************************************)
(* Spec: the commands are run on the workspace, one after the other; the   *)
(* confirmation of undoLast stays open while other commands finish.        *)
(***************************************************************************)
MaxOps == 2

FieldInputs == {<<FieldA>>, <<FieldB>>}

Init ==
    /\ files \in {[p \in Paths |-> CASE p = ProfilePath -> File(t)
                                     [] p = LayoutPath -> File(LayoutText)
                                     [] p = FieldPath -> File(FieldText)] : t \in ProfileTexts}
    /\ backups = EmptyMap
    /\ mappings = [f \in Folders |-> EmptyMap]
    /\ backupFolder = DefaultBackupFolder
    /\ backupLocation \in {"", BlockedFolder}
    /\ createBackupOn = TRUE
    /\ clock = 0
    /\ history = <<>>
    /\ maxHistoryItems = DefaultMaxHistoryItems
    /\ undoPending = NoUndo
    /\ streak = 0
    /\ snap = <<>>
    /\ allBackedUp = TRUE
    /\ typed = <<>>
    /\ ops = 0
    /\ lastOp = NoOp
    /\ TextIdle

\* A command that finishes while undoLast waits for its confirmation.
Dirty(u) == IF u.open THEN [u EXCEPT !.clean = FALSE] ELSE u

\* The entry a rewriting command adds: filesModified is its modifiedFiles.
\* before and backedUp are not stored: the files as the command found them,
\* and whether each of its writes followed a backup.
ModifiedEntry(r, type) ==
    [id |-> ops + 1, type |-> type, filesModified |-> List(r.modified),
     filesDeleted |-> NoList, before |-> files, backedUp |-> WritesBackedUp(r.events)]

DeletedEntry(r, filesToDelete) ==
    [id |-> ops + 1, type |-> "Delete Field Files", filesModified |-> NoList,
     filesDeleted |-> List(filesToDelete), before |-> files,
     backedUp |-> WritesBackedUp(r.events)]

\* The command ends, cancelled or not: the disk is as the run left it.
Ended(r, name, cancelled) ==
    /\ Becomes(r)
    /\ ops' = ops + 1
    /\ lastOp' = [name |-> name, setting |-> createBackupOn, events |-> r.events,
                  visits |-> r.visits, modified |-> r.modified, removed |-> r.removed,
                  cancelled |-> cancelled]
    /\ undoPending' = Dirty(undoPending)
    /\ allBackedUp' = (allBackedUp /\ WritesBackedUp(r.events))
    /\ UNCHANGED <<textVars, backupLocation, createBackupOn, clock, maxHistoryItems, streak,
                   snap, typed>>

Done(r, name) == Ended(r, name, FALSE)

\* if (totalRemoved > 0) this.historyManager.addEntry({... filesModified ...})
DoneRewriting(r, name) ==
    /\ Done(r, name)
    /\ history' = IF r.removed > 0
                  THEN addEntry(history, ModifiedEntry(r, "Remove Field References"),
                                maxHistoryItems)
                  ELSE history

DoneSilently(r, name) == Done(r, name) /\ UNCHANGED history

\* if (token.isCancellationRequested) return;
Cancelled(r, name) == Ended(r, name, TRUE) /\ UNCHANGED history

\* executeOnFile: the count processFile returned is the count it reports.
Reported(r) == [r EXCEPT !.removed = r.got]

\* cleanforce.cleanupLayouts: LayoutCleaner.execute
CleanupLayouts ==
    /\ ops < MaxOps
    /\ \E fields \in FieldInputs :
         DoneRewriting(CleanLayout(Run0, LayoutPath, fields), "cleanupLayouts")

\* cleanforce.removeFields: FieldRemover.execute; the progress is either
\* cancelled when the profiles are done, or not at all.
RemoveFields ==
    /\ ops < MaxOps
    /\ \E fields \in FieldInputs, cancelled \in BOOLEAN :
         IF cancelled
         THEN Cancelled(ProcessProfile(Run0, ProfilePath, Qualified(fields)), "removeFields")
         ELSE DoneRewriting(
                 CleanLayout(ProcessProfile(Run0, ProfilePath, Qualified(fields)),
                             LayoutPath, FieldNames(Qualified(fields))),
                 "removeFields")

\* cleanforce.removeFieldsFromFile: FieldRemover.executeOnFile on the profile
RemoveFieldsFromFile ==
    /\ ops < MaxOps
    /\ \E fields \in FieldInputs :
         DoneSilently(Reported(Visited(Run0, processFile(Run0, ProfilePath, Qualified(fields)),
                                       ProfilePath)),
                      "removeFieldsFromFile")

\* cleanforce.removeLayoutReferences: FieldRemover.removeLayoutReferences
RemoveLayoutReferences ==
    /\ ops < MaxOps
    /\ \E fields \in FieldInputs :
         DoneSilently(RemoveLayoutFile(Run0, LayoutPath, fields), "removeLayoutReferences")

\* cleanforce.removeApexReferences: FieldRemover.removeApexReferences
RemoveApexReferences ==
    /\ ops < MaxOps
    /\ DoneSilently(
          RemoveMetadataFile(
              RemoveMetadataFile(Run0, ProfilePath, <<ApexName>>, "classAccesses", "apexClass"),
              ProfilePath, <<ApexName>>, "apexPageAccesses", "apexPage"),
          "removeApexReferences")

\* cleanforce.deleteFieldFiles: FieldFileDeleter.execute for the field
\* Name__c, once its file is found and the deletion is confirmed.
DeleteFieldFiles ==
    /\ ops < MaxOps
    /\ files[FieldPath].exists
    /\ Done(DeleteFile(Run0, FieldPath), "deleteFieldFiles")
    /\ history' = addEntry(history, DeletedEntry(DeleteFile(Run0, FieldPath), <<FieldPath>>),
                           maxHistoryItems)

\* undoLast returns false.
UndoRefused(confirmed) ==
    [name |-> "undoLast", result |-> FALSE, confirmed |-> confirmed, events |-> <<>>]

\* undoLast up to its confirmation dialog.
UndoBegin ==
    /\ ~undoPending.open
    /\ IF getLastEntry(history) = NoEntry
       THEN undoPending' = undoPending /\ lastOp' = UndoRefused(FALSE)
       ELSE IF ~getLastEntry(history).filesModified.defined
       THEN undoPending' = undoPending /\ lastOp' = UndoRefused(FALSE)
       ELSE /\ undoPending' = [open |-> TRUE, entry |-> getLastEntry(history), clean |-> TRUE]
            /\ lastOp' = [name |-> "undoAsk"]
    /\ UNCHANGED <<textVars, diskVars, createBackupOn, history, maxHistoryItems, streak,
                   allBackedUp, typed, ops>>

\* The dialog is closed without 'Yes, Undo', and the head is removed all the same.
UndoDeclinedShifting ==
    /\ undoPending.open
    /\ undoPending' = NoUndo
    /\ lastOp' = UndoRefused(FALSE)
    /\ history' = Shift(history)
    /\ UNCHANGED <<textVars, diskVars, createBackupOn, maxHistoryItems, streak,
                   allBackedUp, typed, ops>>

\* The dialog is closed without 'Yes, Undo'.
UndoDeclined ==
    /\ undoPending.open
    /\ undoPending' = NoUndo
    /\ lastOp' = UndoRefused(FALSE)
    /\ UNCHANGED <<textVars, diskVars, createBackupOn, history, maxHistoryItems, streak,
                   allBackedUp, typed, ops>>

Undone(r) ==
    /\ Becomes(r)
    /\ history' = Shift(history)
    /\ lastOp' = [name |-> "undoLast", result |-> TRUE, confirmed |-> TRUE,
                  events |-> r.events, entry |-> undoPending.entry,
                  clean |-> undoPending.clean, stored |-> history]
    /\ undoPending' = NoUndo

\* 'Yes, Undo': the restores, then the head of the stored history is removed.
UndoConfirmed ==
    /\ undoPending.open
    /\ Undone(RestoreEach(Run0, undoPending.entry.filesModified.items))
    /\ UNCHANGED <<textVars, backupLocation, clock, snap, createBackupOn, maxHistoryItems,
                   streak, allBackedUp, typed, ops>>

\* The user switches cleanforce.createBackup.
SetCreateBackup ==
    /\ createBackupOn' = ~createBackupOn
    /\ UNCHANGED <<textVars, diskVars, histVars, allBackedUp, typed, ops, lastOp>>

Next ==
    \/ CleanupLayouts
    \/ RemoveFields
    \/ RemoveFieldsFromFile
    \/ RemoveLayoutReferences
    \/ RemoveApexReferences
    \/ DeleteFieldFiles
    \/ UndoBegin
    \/ UndoDeclined
    \/ UndoConfirmed
    \/ SetCreateBackup

Spec == Init /\ [][Next]_vars

\* The paths undoLast called restoreBackup with, in the order of the calls.
RestoreCalls(events) == [i \in 1..Len(events) |-> events[i][2]]

UndoneNow == lastOp.name = "undoLast" /\ lastOp.confirmed

\* C1: undoLast, once confirmed, has called restoreBackup for every path of
\* the entry's filesModified, has removed exactly the head of the stored
\* history (the entry it read, when no command ended meanwhile) and has
\* returned true, whatever the restores returned.
C1_UndoRestoresAllAndRemovesHead ==
    UndoneNow =>
        /\ lastOp.result
        /\ RestoreCalls(lastOp.events) = lastOp.entry.filesModified.items
        /\ lastOp.stored # <<>>
        /\ history = Tail(lastOp.stored)
        /\ lastOp.clean => Head(lastOp.stored) = lastOp.entry

\* An entry with two files was undone: one restore failed, the other
\* succeeded, the entry is gone and undoLast returned true.
C1_Witness ==
    /\ UndoneNow
    /\ lastOp.result
    /\ Len(lastOp.events) = 2
    /\ \E i, j \in 1..2 : ~lastOp.events[i][3] /\ lastOp.events[j][3]
    /\ lastOp.clean
    /\ history = Tail(lastOp.stored)

\* C2: after an undoLast that returned true, no command having ended while
\* it waited, every file of the undone entry's filesModified has the content
\* it had just before the entry's command ran; every write so far followed a
\* backup of the file that succeeded.
C2_UndoRestoresPreviousState ==
    (UndoneNow /\ lastOp.result /\ lastOp.clean /\ allBackedUp) =>
        \A i \in 1..Len(lastOp.entry.filesModified.items) :
            files[lastOp.entry.filesModified.items[i]]
                = lastOp.entry.before[lastOp.entry.filesModified.items[i]]

Rewrote == lastOp.name \in {"cleanupLayouts", "removeFields", "removeFieldsFromFile",
                            "removeLayoutReferences", "removeApexReferences"}

\* C7: a file a rewriting command visited, for which it computed the content
\* it had read, was neither backed up nor written nor counted as modified.
C7_UnchangedFilesUntouched ==
    Rewrote =>
        \A i \in 1..Len(lastOp.visits) :
            ~lastOp.visits[i].changed =>
                /\ lastOp.visits[i].calls = <<>>
                /\ ~lastOp.visits[i].counted

\* C8: with createBackup set, every write and every delete of a command
\* follows a createBackup call of the same command for the same file.
C8_BackupBeforeEveryWrite ==
    ((Rewrote \/ lastOp.name = "deleteFieldFiles") /\ lastOp.setting) =>
        \A i \in 1..Len(lastOp.events) :
            lastOp.events[i][1] \in {"write", "unlink"} =>
                \E j \in 1..(i - 1) :
                    /\ lastOp.events[j][1] = "createBackup"
                    /\ lastOp.events[j][2] = lastOp.events[i][2]

\* The files a command overwrote, from its calls.
Overwritten(events) == {events[i][2] : i \in {j \in 1..Len(events) : events[j][1] = "write"}}

Range(seq) == {seq[i] : i \in 1..Len(seq)}

\* The head of the history is the entry the last command added, and its
\* filesModified lists exactly the files the command overwrote.
RecordedLast ==
    /\ history # <<>>
    /\ history[1].id = ops
    /\ history[1].filesModified.defined
    /\ Range(history[1].filesModified.items) = Overwritten(lastOp.events)

\* C11: a rewriting command that ran to its end, removed at least one
\* reference and overwrote at least one file has added one history entry,
\* whose filesModified lists the files it overwrote.
C11_EntryForEveryRemoval ==
    (Rewrote /\ ~lastOp.cancelled /\ lastOp.removed > 0 /\ Overwritten(lastOp.events) # {})
        => RecordedLast

\* C12: a command that was cancelled after it had overwritten files has
\* recorded them: the head of the history is its entry, and the entry's
\* filesModified lists the files it overwrote before the cancellation.
C12_CancelledKeepsPartialResult ==
    (Rewrote /\ lastOp.cancelled /\ Overwritten(lastOp.events) # {})
        => /\ \A p \in Overwritten(lastOp.events) : files[p].exists
           /\ RecordedLast

\* C28: a step of undoLast that ends with the result false (the history is
\* empty, its head has neither backupPath nor filesModified, or the user
\* does not confirm) changes neither the history nor a file nor a backup.
C28_RefusedUndoChangesNothing ==
    [][(lastOp'.name = "undoLast" /\ ~lastOp'.result) =>
          /\ history' = history
          /\ files' = files
          /\ backups' = backups
          /\ mappings' = mappings]_vars

\* undoLast returned false on a history whose head is a Delete Field Files
\* entry: the entry is still the head.
C28_Witness ==
    /\ lastOp.name = "undoLast" /\ ~lastOp.result
    /\ history # <<>>
    /\ history[1].type = "Delete Field Files"
    /\ ~history[1].filesModified.defined
    /\ ~undoPending.open

\* C26: a confirmed undoLast shifts off the history the entry it read with
\* getLastEntry and whose filesModified it restored, also when a command
\* ended and added its entry while the confirmation was open.
C26_UndoRemovesTheEntryItRestored ==
    (lastOp.name = "undoLast" /\ lastOp.result) =>
        /\ lastOp.stored # <<>>
        /\ lastOp.stored[1].id = lastOp.entry.id
        /\ history = Tail(lastOp.stored)
        /\ RestoreCalls(lastOp.events) = lastOp.entry.filesModified.items

\* No command ended while the confirmation was open: the entry read is the
\* entry shifted off.
UndoRemovesTheEntryItReadWhenAlone ==
    (lastOp.name = "undoLast" /\ lastOp.result /\ lastOp.clean) =>
        /\ lastOp.stored # <<>>
        /\ lastOp.stored[1].id = lastOp.entry.id
        /\ history = Tail(lastOp.stored)

\* The visits of the last command in which createBackup was called for the
\* file and returned undefined.
FailedBackups ==
    {n \in 1..(IF "visits" \in DOMAIN lastOp THEN Len(lastOp.visits) ELSE 0) :
        \E i \in 1..Len(lastOp.visits[n].calls) :
            lastOp.visits[n].calls[i] = <<"createBackup", lastOp.visits[n].path, FALSE>>}

\* C22: when createBackup is enabled and the call for a file whose content
\* changes returns undefined, the command still overwrites the file, right
\* after the call, and a command that keeps modifiedFiles counts the file
\* as modified.
C22_WriteGoesOnWithoutBackup ==
    \A n \in FailedBackups :
        lastOp.visits[n].changed =>
           /\ lastOp.visits[n].calls = <<<<"createBackup", lastOp.visits[n].path, FALSE>>,
                                         <<"write", lastOp.visits[n].path>>>>
           /\ lastOp.name \in {"cleanupLayouts", "removeFields"} => lastOp.visits[n].counted

\* cleanupLayouts rewrote the layout although its backup had failed.
C22_Witness ==
    /\ lastOp.name = "cleanupLayouts"
    /\ lastOp.setting
    /\ FailedBackups = {1}
    /\ lastOp.visits[1].counted
    /\ files[LayoutPath].content # LayoutText
    /\ backups = EmptyMap

(***************************************************************************)
(* SpecBatch: the batch commands on a workspace with several files of each *)
(* kind.  The read of one of the files a command lists may throw (the file *)
(* was removed or locked after findFiles returned it).                     *)
(***************************************************************************)
MaxBatchOps == 2

StandardProfile == "Standard.profile-meta.xml"
SalesPermissionSet == "Sales.permissionset-meta.xml"
SupportPermissionSet == "Support.permissionset-meta.xml"
AccountLayout == "Account-Account Layout.layout-meta.xml"
CloseLayout == "Case-Close Case Layout.layout-meta.xml"
ClassPath == "classes/MyClass.cls"
FlowPath == "Case_Flow.flow-meta.xml"
OtherFlow == "Other_Flow.flow-meta.xml"
\* A flow file of the same base name in another directory.
CopyFlow == "archive/Case_Flow.flow-meta.xml"

\* What findFiles returns for each glob, in its order.
ProfileFiles == <<ProfilePath, StandardProfile>>
PermissionSetFiles == <<SalesPermissionSet, SupportPermissionSet>>
LayoutFiles == <<AccountLayout, LayoutPath, CloseLayout>>
\* '**/*.{permissionset-meta.xml,profile-meta.xml}'
AccessFiles == PermissionSetFiles \o ProfileFiles

\* findFiles('**/*.flow-meta.xml')
FlowFiles == <<FlowPath, OtherFlow, CopyFlow>>

BatchPaths ==
    Range(AccessFiles) \cup Range(LayoutFiles) \cup Range(FlowFiles) \cup {FieldPath, ClassPath}

\* No read throws.
NoFailure == ""

\* path.basename of a layout file, in the pieces its tests tell apart.
Basename(path) ==
    CASE path = AccountLayout -> <<"Account", "-", "Account Layout", ".layout-meta.xml">>
      [] path = LayoutPath -> <<"Case", "-", "Case Layout", ".layout-meta.xml">>
      [] path = CloseLayout -> <<"Case", "-", "Close Case Layout", ".layout-meta.xml">>

\* String.prototype.toLowerCase
LowerCase(t) ==
    CASE t = "Account" -> "account"
      [] t = "Case" -> "case"
      [] t = "Contact" -> "contact"
      [] t = "Account Layout" -> "account layout"
      [] t = "Case Layout" -> "case layout"
      [] t = "Close Case Layout" -> "close case layout"
      [] OTHER -> t

toLowerCase(s) == [i \in 1..Len(s) |-> LowerCase(s[i])]

\* String.prototype.startsWith
StartsWith(s, prefix) == Len(prefix) <= Len(s) /\ SubSeq(s, 1, Len(prefix)) = prefix

\* The filter of LayoutCleaner.processLayouts.
IsObjectLayout(path, objectName) ==
    \/ StartsWith(toLowerCase(Basename(path)), toLowerCase(objectName) \o <<"-">>)
    \/ toLowerCase(Basename(path)) = toLowerCase(objectName) \o <<".layout-meta.xml">>

Filter(seq, Keep(_)) == SelectSeq(seq, Keep)

ObjectLayouts(allLayouts, objectName) ==
    Filter(allLayouts, LAMBDA p : IsObjectLayout(p, objectName))

\* objectLayouts.length > 0 ? objectLayouts : allLayouts
LayoutsToProcess(allLayouts, objectName) ==
    IF Len(ObjectLayouts(allLayouts, objectName)) > 0
    THEN ObjectLayouts(allLayouts, objectName)
    ELSE allLayouts

\* `**/${objectName}-*.layout-meta.xml`
GlobObjectLayouts(allLayouts, objectName) ==
    Filter(allLayouts, LAMBDA p : StartsWith(Basename(p), objectName \o <<"-">>))

\* The catch of a loop body: the error is logged and the loop goes on.
Caught(r, path) == [r EXCEPT !.caught = Append(@, path)]

\* An exception that nothing in the loop catches.
Thrown(r) == [r EXCEPT !.thrown = TRUE]

\* LayoutCleaner.processLayouts: the loop over layoutsToProcess.
RECURSIVE CleanLayouts(_, _, _, _)
CleanLayouts(r, paths, fields, failing) ==
    IF paths = <<>> THEN r
    ELSE The({CleanLayouts(n, Tail(paths), fields, failing) :
                n \in {IF Head(paths) = failing THEN Caught(r, Head(paths))
                       ELSE CleanLayout(r, Head(paths), fields)}})

\* removeLayoutItems: the loop over layoutFiles.
RECURSIVE RemoveLayoutItems(_, _, _, _)
RemoveLayoutItems(r, paths, fields, failing) ==
    IF paths = <<>> THEN r
    ELSE IF Head(paths) = failing THEN Thrown(r)
    ELSE The({RemoveLayoutItems(n, Tail(paths), fields, failing) :
                n \in {RemoveLayoutFile(r, Head(paths), fields)}})

\* removeMetadataReferences: the loop over files.
RECURSIVE RemoveMetadataReferences(_, _, _, _, _, _)
RemoveMetadataReferences(r, paths, names, parentTag, childTag, failing) ==
    IF paths = <<>> \/ r.thrown THEN r
    ELSE IF Head(paths) = failing THEN Thrown(r)
    ELSE The({RemoveMetadataReferences(n, Tail(paths), names, parentTag, childTag, failing) :
                n \in {RemoveMetadataFile(r, Head(paths), names, parentTag, childTag)}})

\* /\s*<tag>\s*<\/tag>/g
EmptyBlockPattern(tag) == <<Ws, Lit("<" \o tag \o ">"), Ws, Lit("</" \o tag \o ">")>>

\* PermissionSetCleaner: the three replacements of one file; totalCleaned++
PermissionSetRewrite(content) ==
    [content |-> ThenAll(ThenAll(ThenAll(Start(content, 0),
                                         EmptyBlockPattern("fieldPermissions")),
                                 EmptyBlockPattern("objectPermissions")),
                         EmptyBlockPattern("classAccesses")).content,
     removed |-> 1]

CleanPermissionSetFile(r, path) ==
    Visited(r, BackupWriteCount(r, path, PermissionSetRewrite(r.files[path].content)), path)

\* PermissionSetCleaner.execute: the loop over psFiles.
RECURSIVE CleanPermissionSets(_, _, _)
CleanPermissionSets(r, paths, failing) ==
    IF paths = <<>> THEN r
    ELSE IF Head(paths) = failing THEN Thrown(r)
    ELSE The({CleanPermissionSets(n, Tail(paths), failing) :
                n \in {CleanPermissionSetFile(r, Head(paths))}})

\* /<parent>[\s\S]*?<child>([^<]+)<\/child>[\s\S]*?<\/parent>/g
CapturePattern(parentTag, childTag) ==
    <<Lit("<" \o parentTag \o ">"), Lazy, Lit("<" \o childTag \o ">"), Alt(Words), Text,
      Lit("</" \o childTag \o ">"), Lazy, Lit("</" \o parentTag \o ">")>>

\* The group ([^<]+) of a match of CapturePattern: the text of the first
\* child element from which the rest of the pattern matches.
Capture(match, parentTag, childTag) ==
    LET rest == SubSeq(CapturePattern(parentTag, childTag), 3, 8)
        at == Min({i \in 2..Len(match) : MatchEnd(match, i, rest, 1) # 0})
    IN  SubSeq(match, at + 1, at + Run(match, at + 1, Words))

\* The same replacement, removing every match whatever it names.
RemoveEvery(sofar, parentTag, childTag, valid) ==
    The({Counted(RemoveHits(c.content, c.ms, [n \in 1..Len(c.ms) |-> TRUE]), c.removed) :
         c \in {[content |-> sofar.content, removed |-> sofar.removed,
                 ms |-> Matches(sofar.content, CapturePattern(parentTag, childTag))]}})

\* content.replace(pattern, (match, ref) => !valid.has(ref) ? (cleaned++, '') : match)
RemoveInvalid(sofar, parentTag, childTag, valid) ==
    The({Counted(
            RemoveHits(c.content, c.ms,
                       [n \in 1..Len(c.ms) |->
                          Capture(Span(c.content, c.ms[n]), parentTag, childTag) \notin valid]),
            c.removed) :
         c \in {[content |-> sofar.content, removed |-> sofar.removed,
                 ms |-> Matches(sofar.content, CapturePattern(parentTag, childTag))]}})

\* The field files of the workspace and the names getValidFields takes from
\* their paths; the class files and the names getValidClasses takes.
FieldFiles == {[path |-> FieldPath, object |-> ObjectName, field |-> FieldA]}
ClassFiles == {[path |-> ClassPath, name |-> ApexName]}

getValidFields(w) ==
    {FullFieldRef(f.object, f.field) : f \in {g \in FieldFiles : w.files[g.path].exists}}

getValidClasses(w) == {f.name : f \in {g \in ClassFiles : w.files[g.path].exists}}

ProfileRewrite(content, validFields, validClasses) ==
    RemoveInvalid(RemoveInvalid(Start(content, 0), "fieldPermissions", "field", validFields),
                  "classAccesses", "apexClass", validClasses)

CleanProfileFile(r, path, validFields, validClasses) ==
    Visited(r, BackupWriteCount(r, path,
                                ProfileRewrite(r.files[path].content, validFields,
                                               validClasses)),
            path)

\* ProfileCleaner.execute: the loop over profileFiles.
RECURSIVE CleanProfiles(_, _, _, _, _)
CleanProfiles(r, paths, validFields, validClasses, failing) ==
    IF paths = <<>> THEN r
    ELSE IF Head(paths) = failing THEN Thrown(r)
    ELSE The({CleanProfiles(n, Tail(paths), validFields, validClasses, failing) :
                n \in {CleanProfileFile(r, Head(paths), validFields, validClasses)}})

\* content.split('\n')
RECURSIVE Split(_)
Split(content) ==
    IF \A i \in 1..Len(content) : content[i] # NL THEN <<content>>
    ELSE The({<<SubSeq(content, 1, at - 1)>> \o Split(SubSeq(content, at + 1, Len(content))) :
                at \in {Min({i \in 1..Len(content) : content[i] = NL})}})

\* path.basename(file.fsPath).replace('.flow-meta.xml', '')
FlowName(path) == IF path \in {FlowPath, CopyFlow} THEN "Case_Flow" ELSE "Other_Flow"

\* The tags of the flow files: what stands before the ">" and after the "<"
\* of pattern 15.
FlowTags ==
    {"<" \o t \o ">" : t \in {"field", "filters", "leftValue", "sortField", "recordLookups",
                              "decisions", "fieldName"}}
    \cup {"</" \o t \o ">" : t \in {"field", "filters", "leftValue", "sortField",
                                    "recordLookups", "decisions", "fieldName"}}

\* <tag>[^<]*\.field</tag>
DottedPattern(tag, fieldName) ==
    <<Lit("<" \o tag \o ">"), Text, Lit(".")>> \o escapeRegex(fieldName)
        \o <<Lit("</" \o tag \o ">")>>

\* <tag>[^<]*field[^<]*</tag>
WithinPattern(tag, fieldName) ==
    <<Lit("<" \o tag \o ">"), Text>> \o escapeRegex(fieldName)
        \o <<Text, Lit("</" \o tag \o ">")>>

\* <tag>[\s\S]*?<field>field</field>
InsidePattern(tag, fieldName) ==
    <<Lit("<" \o tag \o ">"), Lazy>> \o ElementPattern("field", fieldName)

Pattern(regex, elementType) == [regex |-> regex, elementType |-> elementType]

\* The patterns of scanFlowReferences, in the order of the array.  The two
\* merge-field patterns (6 and 22) need a "{!", which no flow file here holds.
FlowPatterns(objectName, fieldName) ==
    << Pattern(ElementPattern("field", fieldName), "Field Reference"),
       Pattern(InsidePattern("filters", fieldName), "Filter Condition"),
       Pattern(InsidePattern("inputAssignments", fieldName), "Input Assignment"),
       Pattern(InsidePattern("outputAssignments", fieldName), "Output Assignment"),
       Pattern(DottedPattern("elementReference", fieldName), "Element Reference"),
       Pattern(WithinPattern("stringValue", fieldName), "String Value"),
       Pattern(DottedPattern("value", fieldName), "Value Reference"),
       Pattern(DottedPattern("assignToReference", fieldName), "Assignment Target"),
       Pattern(<<Lit("<processMetadataValues>"), Lazy>> \o escapeRegex(fieldName)
                 \o <<Lazy, Lit("</processMetadataValues>")>>, "Process Metadata"),
       Pattern(ElementPattern("fieldName", fieldName), "Field Name Reference"),
       Pattern(DottedPattern("leftValue", fieldName), "Condition Left Value"),
       Pattern(DottedPattern("rightValue", fieldName), "Condition Right Value"),
       Pattern(DottedPattern("defaultValue", fieldName), "Default Value"),
       Pattern(ElementPattern("fieldName", FullFieldRef(objectName, fieldName)), "Screen Field"),
       Pattern(<<Alt(FlowTags)>> \o escapeRegex(FullFieldRef(objectName, fieldName))
                 \o <<Alt(FlowTags)>>, "Object.Field Reference"),
       Pattern(escapeRegex(<<"$Record", ".">> \o fieldName), "$Record Reference"),
       Pattern(escapeRegex(<<"$Record__Prior", ".">> \o fieldName), "$Record__Prior Reference"),
       Pattern(ElementPattern("recordField", fieldName), "Scheduled Path"),
       Pattern(ElementPattern("sortField", fieldName), "Sort Field"),
       Pattern(ElementPattern("queriedFields", fieldName), "Queried Field"),
       Pattern(InsidePattern("triggerConditions", fieldName), "Trigger Condition"),
       Pattern(WithinPattern("choiceReferences", fieldName), "Choice Reference"),
       Pattern(DottedPattern("objectFieldReference", fieldName), "Object Field Reference"),
       Pattern(<<Lit("<expression>"), Text, Lit(".")>> \o escapeRegex(fieldName)
                 \o <<Text, Lit("</expression>")>>, "Expression") >>

\* The containing elements the scan looks back for, in the order of its tests.
Containers ==
    << <<"<recordCreates>", "Create Records">>, <<"<recordUpdates>", "Update Records">>,
       <<"<recordLookups>", "Get Records">>, <<"<recordDeletes>", "Delete Records">>,
       <<"<assignments>", "Assignment">>, <<"<decisions>", "Decision">>,
       <<"<loops>", "Loop">>, <<"<screens>", "Screen">>, <<"<formulas>", "Formula">>,
       <<"<start>", "Start Element">>, <<"<waits>", "Wait">>, <<"<subflows>", "Subflow">>,
       <<"<actionCalls>", "Action Call">>,
       <<"<collectionProcessors>", "Collection Processor">> >>

\* How many lines back the containing element is looked for.
LookBack == 10

Holds(line, tag) == \E i \in 1..Len(line) : line[i] = tag

\* The type the chain of tests gives for one line, "Unknown" when none holds.
ContainerOf(line) ==
    IF \A c \in 1..Len(Containers) : ~Holds(line, Containers[c][1]) THEN "Unknown"
    ELSE Containers[Min({c \in 1..Len(Containers) : Holds(line, Containers[c][1])})][2]

\* for (let i = lineNum; i >= Math.max(0, lineNum - 10); i--): n is lineNum + 1
ContainingElement(lines, n) ==
    IF \A i \in Max({1, n - LookBack})..n : ContainerOf(lines[i]) = "Unknown" THEN "Unknown"
    ELSE ContainerOf(lines[Max({i \in Max({1, n - LookBack})..n :
                                  ContainerOf(lines[i]) # "Unknown"})])

Reference(flowName, fieldName, n, elementType) ==
    [flowName |-> flowName, field |-> fieldName, line |-> n, elementType |-> elementType]

\* The object pushed on references: context is file.fsPath.
Found(ref, path) ==
    [flowName |-> ref.flowName, field |-> ref.field, line |-> ref.line,
     elementType |-> ref.elementType, context |-> path]

\* What references.some compares in the pass over the patterns.
SameReference(r, ref) ==
    /\ r.flowName = ref.flowName
    /\ r.field = ref.field
    /\ r.line = ref.line
    /\ r.elementType = ref.elementType

\* if (regex.test(line)) and the reference is not yet there: references.push
RECURSIVE TestPatterns(_, _, _, _, _, _)
TestPatterns(refs, patterns, k, line, path, given) ==
    IF k > Len(patterns) THEN refs
    ELSE The({TestPatterns(next, patterns, k + 1, line, path, given) :
                next \in {IF /\ Test(patterns[k].regex, line)
                             /\ \A j \in 1..Len(refs) :
                                  ~SameReference(refs[j],
                                                 Reference(FlowName(path), given.field, given.n,
                                                           patterns[k].elementType))
                          THEN Append(refs, Found(Reference(FlowName(path), given.field,
                                                            given.n, patterns[k].elementType),
                                                  path))
                          ELSE refs}})

\* if (line.includes(fieldName)): the containing element, unless the line
\* has a reference already or the element is unknown
Heuristic(refs, lines, n, path, fieldName) ==
    IF /\ Includes(lines[n], fieldName)
       /\ ContainingElement(lines, n) # "Unknown"
       /\ \A j \in 1..Len(refs) :
            ~(refs[j].flowName = FlowName(path) /\ refs[j].field = fieldName
              /\ refs[j].line = n)
    THEN Append(refs, Found(Reference(FlowName(path), fieldName, n,
                                      ContainingElement(lines, n)), path))
    ELSE refs

\* for (let lineNum = 0; lineNum < lines.length; lineNum++)
RECURSIVE ScanLines(_, _, _, _, _, _)
ScanLines(refs, lines, n, path, objectName, fieldName) ==
    IF n > Len(lines) THEN refs
    ELSE The({ScanLines(Heuristic(next, lines, n, path, fieldName), lines, n + 1,
                        path, objectName, fieldName) :
                next \in {TestPatterns(refs, FlowPatterns(objectName, fieldName), 1, lines[n],
                                       path, [field |-> fieldName, n |-> n])}})

\* for (const field of this.fieldsToRemove)
RECURSIVE ScanFields(_, _, _, _, _)
ScanFields(refs, lines, path, objectName, fields) ==
    IF fields = <<>> THEN refs
    ELSE The({ScanFields(next, lines, path, objectName, Tail(fields)) :
                next \in {ScanLines(refs, lines, 1, path, objectName,
                                    SecondPart(Head(fields)))}})

\* The scan of one flow file that also writes the file back without the
\* lines that hold a reference.
ScanFileRewriting(r, path, objectName, fields) ==
    The({Write([r EXCEPT !.references = refs], path,
               IF Len(refs) > Len(r.references) THEN <<>> ELSE r.files[path].content) :
           refs \in {ScanFields(r.references, Split(r.files[path].content), path,
                                objectName, fields)}})

\* The body of the loop of scanFlowReferences for one file.
ScanFile(r, path, objectName, fields) ==
    [r EXCEPT !.references = ScanFields(@, Split(r.files[path].content), path,
                                        objectName, fields)]

\* scanFlowReferences: the loop over the flow files; an error is caught.
RECURSIVE ScanFlowReferences(_, _, _, _, _)
ScanFlowReferences(r, paths, objectName, fields, failing) ==
    IF paths = <<>> THEN r
    ELSE The({ScanFlowReferences(n, Tail(paths), objectName, fields, failing) :
                n \in {IF Head(paths) = failing THEN Caught(r, Head(paths))
                       ELSE ScanFile(r, Head(paths), objectName, fields)}})

\* The lines of the first flow file.
FlowText ==
    <<"<recordLookups>", NL>>
        \o <<"<filters>">> \o Element("field", FieldA) \o <<"</filters>", NL>>
        \o Element("sortField", FieldB) \o <<NL>>
        \o <<"</recordLookups>", NL>>
        \o <<"<decisions>", NL>>
        \o Element("leftValue", <<"$Record", ".">> \o FieldA) \o <<NL>>
        \o FieldB

\* The lines of the flow file of the same base name: its first two lines
\* are those of the first flow file.
CopyText == SubSeq(FlowText, 1, 7)

\* <fieldPermissions></fieldPermissions>
EmptyBlock(tag) == <<"<" \o tag \o ">", NL, "</" \o tag \o ">">>

PermissionSetTexts ==
    { PermissionBlock(FieldA) \o PermissionBlock(FieldB) \o ClassAccess(ApexName),
      PermissionBlock(FieldB) \o <<NL>> \o EmptyBlock("fieldPermissions") }

InitBatch ==
    /\ \E t \in PermissionSetTexts, field \in {Missing, File(FieldText)},
          class \in {Missing, File(<<"class">>)} :
         files = [p \in BatchPaths |->
                    CASE p = ProfilePath -> File(PermissionBlock(FieldA) \o PermissionBlock(FieldB))
                      [] p = StandardProfile -> File(PermissionBlock(FieldB) \o ClassAccess(OtherApex)
                                                     \o ClassAccess(ApexName))
                      [] p = SalesPermissionSet -> File(t)
                      [] p = SupportPermissionSet -> File(ClassAccess(ApexName) \o PermissionBlock(FieldB))
                      [] p = AccountLayout -> File(Block("layout", FieldA))
                      [] p = LayoutPath -> File(LayoutText)
                      [] p = CloseLayout -> File(Block("layout", FieldB) \o <<NL, NL, NL>>)
                      [] p = FlowPath -> File(FlowText)
                      [] p = OtherFlow -> File(Element("field", FieldB))
                      [] p = CopyFlow -> File(CopyText)
                      [] p = FieldPath -> field
                      [] p = ClassPath -> class]
    /\ backups = EmptyMap
    /\ mappings = [f \in Folders |-> EmptyMap]
    /\ backupFolder = DefaultBackupFolder
    /\ backupLocation = ""
    /\ createBackupOn = TRUE
    /\ clock = 0
    /\ snap = <<>>
    /\ ops = 0
    /\ lastOp = NoOp
    /\ TextIdle /\ HistIdle /\ InputIdle

\* The command ends, with its summary or with the exception that left its
\* loop: listed are the files of its loop, failing the one whose read threw.
BatchEnded(r, name, objectName, listed, failing, entry) ==
    /\ Becomes(r)
    /\ ops' = ops + 1
    /\ lastOp' = [name |-> name, setting |-> createBackupOn, events |-> r.events,
                  visits |-> r.visits, modified |-> r.modified, removed |-> r.removed,
                  cancelled |-> FALSE, object |-> objectName, listed |-> listed,
                  failing |-> failing,
                  caught |-> r.caught, finished |-> ~r.thrown, before |-> files]
    /\ history' = IF ~r.thrown /\ entry
                  THEN addEntry(history, ModifiedEntry(r, name), maxHistoryItems)
                  ELSE history
    /\ UNCHANGED <<textVars, backupLocation, createBackupOn, clock, maxHistoryItems,
                   undoPending, streak, snap, typed, allBackedUp>>

\* One of the listed files, or none.
Failing(listed) == Range(listed) \cup {NoFailure}

\* cleanforce.cleanupProfiles: ProfileCleaner.execute
BtCleanupProfiles ==
    /\ ops < MaxBatchOps
    /\ \E failing \in Failing(ProfileFiles) :
         \E r \in {CleanProfiles(Run0, ProfileFiles, getValidFields(Run0),
                                 getValidClasses(Run0), failing)} :
            BatchEnded(r, "cleanupProfiles", <<>>, ProfileFiles, failing, Len(r.modified) > 0)

\* cleanforce.cleanupPermissionSets: PermissionSetCleaner.execute
BtCleanupPermissionSets ==
    /\ ops < MaxBatchOps
    /\ \E failing \in Failing(PermissionSetFiles) :
         \E r \in {CleanPermissionSets(Run0, PermissionSetFiles, failing)} :
            BatchEnded(r, "cleanupPermissionSets", <<>>, PermissionSetFiles, failing,
                       Len(r.modified) > 0)

\* cleanforce.removeApexReferences: removeMetadataReferences, twice
BtRemoveApexReferences ==
    /\ ops < MaxBatchOps
    /\ \E failing \in Failing(AccessFiles) :
         \E r \in {RemoveMetadataReferences(
                      RemoveMetadataReferences(Run0, AccessFiles, <<ApexName>>,
                                               "classAccesses", "apexClass", failing),
                      AccessFiles, <<ApexName>>, "apexPageAccesses", "apexPage", failing)} :
            BatchEnded(r, "removeApexReferences", <<>>, AccessFiles, failing, FALSE)

\* cleanforce.removeLayoutReferences: removeLayoutItems
BtRemoveLayoutReferences ==
    /\ ops < MaxBatchOps
    /\ \E fields \in FieldInputs,
          failing \in Failing(GlobObjectLayouts(LayoutFiles, ObjectName)) :
         \E r \in {RemoveLayoutItems(Run0, GlobObjectLayouts(LayoutFiles, ObjectName),
                                     fields, failing)} :
            BatchEnded(r, "removeLayoutReferences", ObjectName,
                       GlobObjectLayouts(LayoutFiles, ObjectName), failing, FALSE)

\* The object names typed into LayoutCleaner.execute.
ObjectInputs == {<<"Case">>, <<"case">>, <<"Account">>, <<"Contact">>}

\* cleanforce.cleanupLayouts: LayoutCleaner.execute, confirmed
BtCleanupLayouts ==
    /\ ops < MaxBatchOps
    /\ \E objectName \in ObjectInputs, fields \in FieldInputs :
         \E failing \in Failing(LayoutsToProcess(LayoutFiles, objectName)) :
            \E r \in {CleanLayouts(Run0, LayoutsToProcess(LayoutFiles, objectName),
                                   fields, failing)} :
               BatchEnded(r, "cleanupLayouts", objectName,
                          LayoutsToProcess(LayoutFiles, objectName), failing, r.removed > 0)

\* FieldRemover.scanFlowReferences, as processAllFiles calls it.
BtScanFlowReferences ==
    /\ ops < MaxBatchOps
    /\ \E fields \in FieldInputs, failing \in Failing(FlowFiles) :
         \E r \in {ScanFlowReferences(Run0, FlowFiles, ObjectName, Qualified(fields),
                                      failing)} :
            /\ Becomes(r)
            /\ ops' = ops + 1
            /\ lastOp' = [name |-> "scanFlowReferences", setting |-> createBackupOn,
                          events |-> r.events, references |-> r.references,
                          listed |-> FlowFiles, failing |-> failing,
                          fields |-> Qualified(fields),
                          before |-> [files |-> files, backups |-> backups,
                                      mappings |-> mappings, history |-> history]]
            /\ UNCHANGED <<textVars, backupLocation, createBackupOn, clock, history,
                           maxHistoryItems, undoPending, streak, snap, typed, allBackedUp>>

NextBatch ==
    \/ BtScanFlowReferences
    \/ BtCleanupProfiles
    \/ BtCleanupPermissionSets
    \/ BtRemoveApexReferences
    \/ BtRemoveLayoutReferences
    \/ BtCleanupLayouts

SpecBatch == InitBatch /\ [][NextBatch]_vars

\* C17: scanFlowReferences makes no call that writes, deletes or backs up a
\* file, and leaves every file, the backups, the backup mappings and the
\* history as they were.
C17_ScanChangesNothing ==
    lastOp.name = "scanFlowReferences" =>
        /\ lastOp.events = <<>>
        /\ files = lastOp.before.files
        /\ backups = lastOp.before.backups
        /\ mappings = lastOp.before.mappings
        /\ history = lastOp.before.history

\* After a command that rewrote profiles and recorded it, the scan found the
\* references of both flow files.
C17_Witness ==
    /\ lastOp.name = "scanFlowReferences"
    /\ history # <<>>
    /\ backups # EmptyMap
    /\ \E i, j \in 1..Len(lastOp.references) :
         /\ lastOp.references[i].flowName = "Case_Flow"
         /\ lastOp.references[j].flowName = "Other_Flow"
    /\ \A p \in Range(FlowFiles) : files[p] = lastOp.before.files[p]

\* The references one scanned flow file holds: what the scan of that file
\* alone finds.
FoundAlone(path) ==
    Range(ScanFields(<<>>, Split(files[path].content), path, ObjectName, lastOp.fields))

Scanned == {p \in Range(lastOp.listed) : p # lastOp.failing}

\* C30: every reference of every scanned flow file is reported by
\* scanFlowReferences, also when an earlier scanned flow file of the same
\* base name in another directory gave a finding for the same field, line
\* and element type.
C30_SameBaseNameReferencesReported ==
    lastOp.name = "scanFlowReferences" =>
        \A p \in Scanned : FoundAlone(p) \subseteq Range(lastOp.references)

\* The references of the flow files whose base name no earlier scanned file
\* has are all reported.
FirstOfNameReferencesReported ==
    lastOp.name = "scanFlowReferences" =>
        \A p \in Scanned :
            (\A i, j \in 1..Len(lastOp.listed) :
                (lastOp.listed[j] = p /\ i < j /\ lastOp.listed[i] \in Scanned)
                    => FlowName(lastOp.listed[i]) # FlowName(p))
                => FoundAlone(p) \subseteq Range(lastOp.references)

\* The files the last command read and rewrote or left as they were.
VisitedPaths == {lastOp.visits[i].path : i \in 1..Len(lastOp.visits)}

BatchCommand == lastOp.name \in {"cleanupProfiles", "cleanupPermissionSets",
                                 "removeApexReferences", "removeLayoutReferences",
                                 "cleanupLayouts"}

\* C13: when the read of one of the files of a batch command throws, every
\* other file of its loop is still processed and the command finishes (its
\* summary is shown and its history step is reached).
C13_FailingFileSkipped ==
    (BatchCommand /\ lastOp.failing # NoFailure) =>
        /\ Range(lastOp.listed) \ {lastOp.failing} \subseteq VisitedPaths
        /\ lastOp.finished

\* The blocks of a parent tag in a text whose child names nothing valid.
StaleBlocks(content, parentTag, childTag, valid) ==
    {n \in 1..Len(Matches(content, CapturePattern(parentTag, childTag))) :
        Capture(Span(content, Matches(content, CapturePattern(parentTag, childTag))[n]),
                parentTag, childTag) \notin valid}

\* C19: after PermissionSetCleaner.execute has run over every permission-set
\* file, none of them holds a fieldPermissions block whose field has no
\* field file in the workspace, nor a classAccesses block whose apexClass
\* has no class file.
C19_NoReferenceToDeletedMetadata ==
    (lastOp.name = "cleanupPermissionSets" /\ lastOp.failing = NoFailure) =>
        \A p \in Range(PermissionSetFiles) :
            /\ StaleBlocks(files[p].content, "fieldPermissions", "field",
                           getValidFields([files |-> files])) = {}
            /\ StaleBlocks(files[p].content, "classAccesses", "apexClass",
                           getValidClasses([files |-> files])) = {}

\* What the cleaner does remove: after it, no permission-set file holds an
\* empty fieldPermissions block.
EmptyBlocksRemoved ==
    (lastOp.name = "cleanupPermissionSets" /\ lastOp.failing = NoFailure) =>
        \A p \in Range(PermissionSetFiles) :
            Matches(files[p].content, EmptyBlockPattern("fieldPermissions")) = <<>>

\* C20: LayoutCleaner.processLayouts for an object overwrites no layout file
\* whose base name neither starts with the object name and a hyphen nor is
\* the object name followed by .layout-meta.xml, whatever the case.
C20_OnlyLayoutsOfTheObjectWritten ==
    lastOp.name = "cleanupLayouts" =>
        \A p \in Overwritten(lastOp.events) : IsObjectLayout(p, lastOp.object)

\* The same where the workspace holds a layout of the object.
LayoutsOfTheObjectOnlyWhenItHasSome ==
    (lastOp.name = "cleanupLayouts"
        /\ ObjectLayouts(LayoutFiles, lastOp.object) # <<>>) =>
        \A p \in Overwritten(lastOp.events) : IsObjectLayout(p, lastOp.object)

(***************************************************************************)
(* The names the user types, as strings of characters, and what each       *)
(* command does with them before it builds a regular expression or a glob. *)
(***************************************************************************)
Letters == {"a"}
WordChars == Letters \cup {"1", "_"}
Chars == WordChars \cup {"*", " ", "."}

\* null
Null == <<>>

\* The longest name sanitizeApiName accepts.
MaxApiNameLength == 80

RECURSIVE TrimStart(_)
TrimStart(name) ==
    IF name # <<>> /\ Head(name) = " " THEN TrimStart(Tail(name)) ELSE name

RECURSIVE TrimEnd(_)
TrimEnd(name) ==
    IF name # <<>> /\ name[Len(name)] = " " THEN TrimEnd(SubSeq(name, 1, Len(name) - 1))
    ELSE name

\* name.trim()
Trim(name) == TrimEnd(TrimStart(name))

\* /^[a-zA-Z][a-zA-Z0-9_]*(__[a-zA-Z]+)?$/.test(name)
ValidPattern(name) ==
    /\ name # <<>>
    /\ name[1] \in Letters
    /\ \E k \in 1..Len(name) :
         /\ \A i \in 2..k : name[i] \in WordChars
         /\ \/ k = Len(name)
            \/ /\ Len(name) >= k + 3
               /\ name[k + 1] = "_" /\ name[k + 2] = "_"
               /\ \A i \in (k + 3)..Len(name) : name[i] \in Letters

\* The checks of sanitizeApiName without the limit on the length.
CheckedAnyLength(trimmed) ==
    IF trimmed = <<>> \/ ~ValidPattern(trimmed) THEN Null ELSE trimmed

Checked(trimmed) ==
    IF trimmed = <<>> \/ ~ValidPattern(trimmed) \/ Len(trimmed) > MaxApiNameLength
    THEN Null
    ELSE trimmed

sanitizeApiName(name) == IF name = <<>> THEN Null ELSE Checked(Trim(name))

\* The places where pat occurs in str.
Occurrences(str, pat) ==
    {i \in 1..(Len(str) - Len(pat) + 1) : SubSeq(str, i, i + Len(pat) - 1) = pat}

Cut(str, at, n) == SubSeq(str, 1, at - 1) \o SubSeq(str, at + n, Len(str))

\* str.replace(pat, ''): the first occurrence is removed.
RemoveFirst(str, pat) ==
    IF Occurrences(str, pat) = {} THEN str ELSE Cut(str, Min(Occurrences(str, pat)), Len(pat))

\* FieldRemover.execute: the names that reach processAllFiles, none when the
\* object name or the field name is refused.
ExecuteNames(object, field) ==
    IF sanitizeApiName(object) = Null THEN {}
    ELSE IF sanitizeApiName(RemoveFirst(field, sanitizeApiName(object) \o <<".">>)) = Null
    THEN {}
    ELSE {sanitizeApiName(object),
          sanitizeApiName(RemoveFirst(field, sanitizeApiName(object) \o <<".">>))}

\* FieldRemover.executeOnFile: this.objectName = objName, and each field is
\* `${objectName}.${f.replace(`${objectName}.`, '')}`
ExecuteOnFileNames(object, field) == {object, RemoveFirst(field, object \o <<".">>)}

\* names.split(',').map(n => n.trim()).filter(n => n)
ListedNames(input) == IF Trim(input) = <<>> THEN {} ELSE {Trim(input)}

\* removeLayoutReferences: the object name goes into the glob, the fields
\* into the patterns.
LayoutReferenceNames(object, field) ==
    IF ListedNames(field) = {} THEN {object} ELSE {object} \cup ListedNames(field)

\* The cleaners that put the object name into a glob or a pattern.
CleanerKinds == {"layout", "flexiPage", "recordType", "listView", "quickAction", "reportType"}

\* A cleaner's execute: the fields are split and trimmed; the object name is
\* used as typed (the LayoutCleaner only compares it with file names).
CleanerNames(kind, object, field) ==
    IF ListedNames(field) = {} THEN {}
    ELSE IF kind = "layout" THEN ListedNames(field)
    ELSE {object} \cup ListedNames(field)

(***************************************************************************)
(* SpecInput: the user types an object name and a field name into a        *)
(* command; interpolated is the set of names the command then builds its   *)
(* patterns and globs from.                                                *)
(***************************************************************************)
MaxNameLen == 2

Names(n) == UNION {[1..m -> Chars] : m \in 1..n}

InitInput ==
    /\ typed \in [object : Names(MaxNameLen), field : Names(MaxNameLen)]
    /\ ops = 0 /\ lastOp = NoOp /\ createBackupOn = TRUE /\ allBackedUp = TRUE
    /\ TextIdle /\ DiskIdle /\ HistIdle

\* What a command that only reads the names leaves unchanged.
inputFrame == <<tIn, tOut, files, backups, mappings, backupFolder, backupLocation, clock, snap,
                history, maxHistoryItems, undoPending, streak, createBackupOn, allBackedUp,
                typed, ops>>

InRemoveFields ==
    /\ lastOp' = [name |-> "removeFields",
                  interpolated |-> ExecuteNames(typed.object, typed.field)]
    /\ UNCHANGED inputFrame

InRemoveFieldsFromFile ==
    /\ lastOp' = [name |-> "removeFieldsFromFile",
                  interpolated |-> ExecuteOnFileNames(typed.object, typed.field)]
    /\ UNCHANGED inputFrame

\* removeApexReferences, removeObjectReferences, removeFlowReferences
InRemoveReferences ==
    /\ lastOp' = [name |-> "removeReferences", interpolated |-> ListedNames(typed.field)]
    /\ UNCHANGED inputFrame

InRemoveLayoutReferences ==
    /\ lastOp' = [name |-> "removeLayoutReferences",
                  interpolated |-> LayoutReferenceNames(typed.object, typed.field)]
    /\ UNCHANGED inputFrame

InCleanup ==
    /\ \E kind \in CleanerKinds :
         lastOp' = [name |-> kind,
                    interpolated |-> CleanerNames(kind, typed.object, typed.field)]
    /\ UNCHANGED inputFrame

NextInput ==
    \/ InRemoveFields
    \/ InRemoveFieldsFromFile
    \/ InRemoveReferences
    \/ InRemoveLayoutReferences
    \/ InCleanup

SpecInput == InitInput /\ [][NextInput]_vars

\* C6: every name a command builds a pattern or a glob from is a name that
\* sanitizeApiName returns.
C6_OnlySanitizedNamesInterpolated ==
    lastOp.name # "none" =>
        \A n \in lastOp.interpolated : n # Null /\ sanitizeApiName(n) = n

(***************************************************************************)
(* SpecSanitize: sanitizeApiName is called on a name.  A letter stands for *)
(* any letter and "1" for any digit, so "123Field" is 111aaaaa.            *)
(***************************************************************************)
MaxTypedLen == 3

Repeat(c, n) == [i \in 1..n |-> c]

\* Names at the limit of the length and beyond it, and the same in blanks.
LongNames ==
    UNION {{Repeat("a", n), <<" ">> \o Repeat("a", n) \o <<" ">>} :
             n \in {MaxApiNameLength, MaxApiNameLength + 1, MaxApiNameLength + 10}}

\* "123Field", "Field Name", "Account", "Custom_Field__c"
ExampleNames ==
    { Repeat("1", 3) \o Repeat("a", 5),
      Repeat("a", 5) \o <<" ">> \o Repeat("a", 4),
      Repeat("a", 7),
      Repeat("a", 6) \o <<"_">> \o Repeat("a", 5) \o <<"_", "_", "a">> }

SanitizeInputs == {<<>>} \cup Names(MaxTypedLen) \cup LongNames \cup ExampleNames

InitSanitize ==
    /\ typed \in SanitizeInputs
    /\ ops = 0 /\ lastOp = NoOp /\ createBackupOn = TRUE /\ allBackedUp = TRUE
    /\ TextIdle /\ DiskIdle /\ HistIdle

Sanitize ==
    /\ ops = 0
    /\ ops' = 1
    /\ lastOp' = [name |-> "sanitizeApiName", input |-> typed,
                  result |-> sanitizeApiName(typed)]
    /\ UNCHANGED <<tIn, tOut, files, backups, mappings, backupFolder, backupLocation, clock,
                   snap, history, maxHistoryItems, undoPending, streak, createBackupOn,
                   allBackedUp, typed>>

NextSanitize == Sanitize

SpecSanitize == InitSanitize /\ [][NextSanitize]_vars

\* t is name without the blanks at its start and at its end.
IsTrimmed(t, name) ==
    /\ \E i, j \in 0..Len(name) : name = Repeat(" ", i) \o t \o Repeat(" ", j)
    /\ t # <<>> => t[1] # " " /\ t[Len(t)] # " "

\* t is not empty, starts with a letter, holds only letters, digits and
\* underscores and is no longer than 80 characters.
IsApiName(t) ==
    /\ t # <<>>
    /\ t[1] \in Letters
    /\ \A i \in 1..Len(t) : t[i] \in WordChars
    /\ Len(t) <= MaxApiNameLength

\* C16: sanitizeApiName returns the trimmed name when the trimmed name is a
\* valid API name of at most 80 characters, and null otherwise; it changes
\* nothing else.
C16_SanitizeApiName ==
    lastOp.name = "sanitizeApiName" =>
        \A t \in {Trim(lastOp.input)} :
            /\ IsTrimmed(t, lastOp.input)
            /\ lastOp.result = IF IsApiName(t) THEN t ELSE Null

\* The examples: "", "123Field", "Field Name" and a name of 90 characters
\* are refused; "Account" and "Custom_Field__c" are returned; so is a name
\* of 80 characters typed between blanks, without the blanks.
SanitizeExamples ==
    /\ sanitizeApiName(<<>>) = Null
    /\ sanitizeApiName(Repeat("1", 3) \o Repeat("a", 5)) = Null
    /\ sanitizeApiName(Repeat("a", 5) \o <<" ">> \o Repeat("a", 4)) = Null
    /\ sanitizeApiName(Repeat("a", MaxApiNameLength + 10)) = Null
    /\ sanitizeApiName(Repeat("a", 7)) = Repeat("a", 7)
    /\ sanitizeApiName(Repeat("a", 6) \o <<"_">> \o Repeat("a", 5) \o <<"_", "_", "a">>)
          = Repeat("a", 6) \o <<"_">> \o Repeat("a", 5) \o <<"_", "_", "a">>

C16_Witness ==
    /\ lastOp.name = "sanitizeApiName"
    /\ lastOp.input = <<" ">> \o Repeat("a", MaxApiNameLength) \o <<" ">>
    /\ lastOp.result = Repeat("a", MaxApiNameLength)
    /\ SanitizeExamples

(***************************************************************************)
(* SpecXml: DestructiveChangesGenerator.generateFiles builds its two XML   *)
(* texts from a list of items.  A member name is a sequence of tokens, and *)
(* the text of a tag is one token wherever it stands.                      *)
(***************************************************************************)
MaxTypes == 2
MaxMembers == 2

XmlHeader == "<?xml version=\"1.0\" encoding=\"UTF-8\"?>"
PackageOpen == "<Package xmlns=\"http://soap.sforce.com/2006/04/metadata\">"
Indent == "    "

\* config.get<string>('apiVersion') || '59.0'
ApiVersionOf(setting) == IF setting = <<>> THEN <<"59.0">> ELSE setting

\* item.members.map(m => `        <members>${m}</members>`).join('\n')
RECURSIVE MembersXml(_)
MembersXml(members) ==
    IF members = <<>> THEN <<>>
    ELSE <<Indent, Indent, "<members>">> \o Head(members) \o <<"</members>">>
         \o (IF Len(members) > 1 THEN <<NL>> ELSE <<>>) \o MembersXml(Tail(members))

\* `    <types>\n${membersXml}\n        <name>${item.type}</name>\n    </types>\n`
TypesXml(item) ==
    <<Indent, "<types>", NL>> \o MembersXml(item.members)
        \o <<NL, Indent, Indent, "<name>">> \o item.type \o <<"</name>", NL>>
        \o <<Indent, "</types>", NL>>

\* for (const item of items) typesXml += ...
RECURSIVE AllTypesXml(_)
AllTypesXml(items) ==
    IF items = <<>> THEN <<>> ELSE TypesXml(Head(items)) \o AllTypesXml(Tail(items))

generatePackageXml(apiVersion) ==
    <<XmlHeader, NL, PackageOpen, NL, Indent, "<version>">> \o apiVersion
        \o <<"</version>", NL, "</Package>">>

generateDestructiveXml(items, apiVersion) ==
    <<XmlHeader, NL, PackageOpen, NL>> \o AllTypesXml(items)
        \o <<Indent, "<version>">> \o apiVersion \o <<"</version>", NL, "</Package>">>

\* The names the user types for the members: two API names, and a name that
\* holds the text of a closing and an opening tag.
MemberNames ==
    { <<"Case", ".", "Foo__c">>, <<"MyClass">>,
      <<"A", "</members>", "<members>", "B">> }

TypeNames == {<<"CustomField">>, <<"ApexClass">>}

DestructiveItems ==
    [type : TypeNames, members : UNION {[1..m -> MemberNames] : m \in 1..MaxMembers}]

InitXml ==
    /\ tIn \in [items : SeqsUpTo(DestructiveItems, MaxTypes),
                apiVersion : {<<>>, <<"59.0">>, <<"60.0">>}]
    /\ tOut = <<>>
    /\ ops = 0 /\ lastOp = NoOp /\ createBackupOn = TRUE
    /\ DiskIdle /\ HistIdle /\ InputIdle

\* generateFiles: the two texts it writes.
GenerateFiles ==
    /\ tOut = <<>>
    /\ tOut' = <<generateDestructiveXml(tIn.items, ApiVersionOf(tIn.apiVersion)),
                 generatePackageXml(ApiVersionOf(tIn.apiVersion))>>
    /\ UNCHANGED <<tIn, otherVars>>

NextXml == GenerateFiles

SpecXml == InitXml /\ [][NextXml]_vars

\* The places of a token in a text, in their order.
Positions(xml, t) == SelectSeq([i \in 1..Len(xml) |-> i], LAMBDA i : xml[i] = t)

\* The text of the element that opens at position i.
ElementText(xml, i, tag) ==
    SubSeq(xml, i + 1,
           Min({j \in (i + 1)..(Len(xml) + 1) :
                  j = Len(xml) + 1 \/ xml[j] = "</" \o tag \o ">"}) - 1)

\* The texts of the elements of a tag, in their order.
Elements(xml, tag) ==
    [n \in 1..Len(Positions(xml, "<" \o tag \o ">")) |->
        ElementText(xml, Positions(xml, "<" \o tag \o ">")[n], tag)]

\* The text holds, for each item in order, one <types> element with one
\* <members> element per member in order and then the <name> of the type,
\* and after them one <version> element with the API version.
HoldsItems(xml, items, apiVersion) ==
    /\ Len(Elements(xml, "types")) = Len(items)
    /\ \A n \in 1..Len(items) :
         \A block \in {Elements(xml, "types")[n]} :
            /\ Elements(block, "members") = items[n].members
            /\ Elements(block, "name") = <<items[n].type>>
            /\ \A i \in Range(Positions(block, "<members>")) :
                  i < Positions(block, "<name>")[1]
    /\ Elements(xml, "version") = <<apiVersion>>
    /\ \A i \in Range(Positions(xml, "</types>")) : i < Positions(xml, "<version>")[1]

\* C18: the destructive-changes text generated for a list of items holds
\* the items as HoldsItems says, with the API version of the setting.
C18_OneMembersElementPerMember ==
    tOut # <<>> => HoldsItems(tOut[1], tIn.items, ApiVersionOf(tIn.apiVersion))

\* No member name holds the text of a tag.
PlainMembers ==
    \A n \in 1..Len(tIn.items) :
        \A m \in 1..Len(tIn.items[n].members) :
            \A i \in 1..Len(tIn.items[n].members[m]) :
                tIn.items[n].members[m][i] \notin {"<members>", "</members>"}

\* The same for member names that hold no tag, among them the example
\* {CustomField, [Case.Foo__c]} at 59.0.
PlainMembersOneElementEach ==
    (tOut # <<>> /\ PlainMembers) =>
        HoldsItems(tOut[1], tIn.items, ApiVersionOf(tIn.apiVersion))

(***************************************************************************)
(* SpecText: a rewriter is run on a fixture, then again on its own output. *)
(***************************************************************************)
InitText ==
    /\ tIn \in UNION {{[kind |-> k, segs |-> g, fields |-> f, content |-> Flatten(k, g)] :
                           f \in FieldLists, g \in SeqsUpTo(SegIds(k), MaxSegs)} : k \in Kinds}
    /\ tOut = <<>>
    /\ ops = 0 /\ lastOp = NoOp /\ createBackupOn = TRUE
    /\ DiskIdle /\ HistIdle /\ InputIdle

\* The text a pass reads: the fixture, then the content of the pass before.
PassInput == IF tOut = <<>> THEN tIn.content ELSE tOut[Len(tOut)].content

CanRun(kind) == tIn.kind = kind /\ Len(tOut) < 2

RunLayout ==
    /\ CanRun("layout")
    /\ tOut' = Append(tOut, LayoutRewrite(PassInput, tIn.fields))
    /\ UNCHANGED <<tIn, otherVars>>

RunRecordType ==
    /\ CanRun("recordType")
    /\ tOut' = Append(tOut, RecordTypeRewrite(PassInput, tIn.fields))
    /\ UNCHANGED <<tIn, otherVars>>

RunListView ==
    /\ CanRun("listView")
    /\ tOut' = Append(tOut, ListViewRewrite(PassInput, tIn.fields))
    /\ UNCHANGED <<tIn, otherVars>>

RunQuickAction ==
    /\ CanRun("quickAction")
    /\ tOut' = Append(tOut, QuickActionRewrite(PassInput, tIn.fields))
    /\ UNCHANGED <<tIn, otherVars>>

RunReportType ==
    /\ CanRun("reportType")
    /\ tOut' = Append(tOut, ReportTypeRewrite(PassInput, ObjectName, tIn.fields))
    /\ UNCHANGED <<tIn, otherVars>>

RunFlexiPage ==
    /\ CanRun("flexi")
    /\ tOut' = Append(tOut, FlexiRewrite(PassInput, ObjectName, tIn.fields))
    /\ UNCHANGED <<tIn, otherVars>>

\* FieldRemover.processQuickActions takes the second part of each
\* Object.Field name.
RunColumns ==
    /\ CanRun("column")
    /\ tOut' = Append(tOut, ColumnRewrite(PassInput, FieldNames(Qualified(tIn.fields))))
    /\ UNCHANGED <<tIn, otherVars>>

RunProcessFile ==
    /\ CanRun("profile")
    /\ tOut' = Append(tOut, ProcessFileRewrite(PassInput, Qualified(tIn.fields)))
    /\ UNCHANGED <<tIn, otherVars>>

NextText ==
    \/ RunLayout
    \/ RunRecordType
    \/ RunListView
    \/ RunQuickAction
    \/ RunReportType
    \/ RunFlexiPage
    \/ RunColumns
    \/ RunProcessFile

SpecText == InitText /\ [][NextText]_vars

(***************************************************************************)
(* What the fixtures are built to contain.                                 *)
(***************************************************************************)
Requested(field) == \E n \in 1..Len(tIn.fields) : tIn.fields[n] = field

\* No stray block tag: every block of the fixture is one of its segments.
WellFormed == \A n \in 1..Len(tIn.segs) : tIn.segs[n] \notin {"<", ">", "po", "pc"}

\* The fixture without its segments at the positions in D.
RECURSIVE Without(_, _, _)
Without(segs, D, n) ==
    IF n > Len(segs) THEN <<>>
    ELSE (IF n \in D THEN <<>> ELSE SegText(tIn.kind, segs[n])) \o Without(segs, D, n + 1)

\* The result is the fixture less some of the segments whose id is in ids,
\* and each such segment was counted once.
RemovedOnlyAmong(ids, r) ==
    \E D \in SUBSET {n \in 1..Len(tIn.segs) : tIn.segs[n] \in ids} :
        /\ r.blocks = Without(tIn.segs, D, 1)
        /\ r.removed = Cardinality(D)

\* Segments whose inner tag value is a requested field.
ExactIds == (IF Requested(FieldA) THEN {"T"} ELSE {}) \cup
            (IF Requested(FieldB) THEN {"B"} ELSE {})

\* C9 (as claimed): on a well-formed fixture a block cleaner removes only
\* blocks whose inner tag value is exactly a requested field, and keeps all
\* the rest of the text unchanged.
C9_OnlyExactValueRemoved ==
    (tIn.kind \in BlockKinds /\ WellFormed /\ tOut # <<>>)
        => RemovedOnlyAmong(ExactIds, tOut[1])

\* C9 (amended): the same, where for the ReportType cleaner the inner tag
\* value may also be the requested field qualified by the object,
\* Object.Field.
C9_OnlyTargetValueRemoved ==
    (tIn.kind \in BlockKinds /\ WellFormed /\ tOut # <<>>)
        => RemovedOnlyAmong(ExactIds \cup
                              (IF tIn.kind = "reportType" /\ Requested(FieldA)
                               THEN {"Q"} ELSE {}),
                            tOut[1])

\* A block for Name__c was removed next to a kept block for Other_Name__c.
C9_Witness ==
    /\ tIn.kind = "layout"
    /\ tIn.segs = <<"O", "T">>
    /\ tIn.fields = <<FieldA>>
    /\ Len(tOut) = 1
    /\ tOut[1].removed = 1
    /\ tOut[1].blocks = Block("layout", FieldOther)

\* C5: in a FlexiPage run, every visibility rule of the file that references
\* a requested field is still in the file the run leaves.
C5_VisibilityReferencesKept ==
    (tIn.kind = "flexi" /\ tOut # <<>>)
        => \A n \in 1..Len(tIn.fields) :
             LET hits == VisibilityHits(tIn.content, ObjectName, tIn.fields[n])
             IN  \A j \in 1..Len(hits) : Includes(tOut[1].content, hits[j])

\* C10: the second pass of a rewriter over its own output removes nothing
\* and leaves the content as it was.
C10_SecondPassRemovesNothing ==
    Len(tOut) = 2 => /\ tOut[2].removed = 0
                     /\ tOut[2].blocks = tOut[1].content

\* A text without its line breaks and blanks.
NoWhiteSpace(text) == SelectSeq(text, LAMBDA t : t \notin WhiteSpace)

\* The positions of the fixture's fieldPermissions blocks whose <field> is a
\* requested field, their children in any order.
TargetBlocks ==
    {n \in 1..Len(tIn.segs) :
        \/ Requested(FieldA) /\ tIn.segs[n] \in {"T", "F", "E", "R"}
        \/ Requested(FieldB) /\ tIn.segs[n] = "B"}

\* C14: on a profile of whole fieldPermissions blocks, processFile removes
\* every block whose <field> is a requested Object.Field, whatever the order
\* of its children, leaves the other blocks as they were, and returns the
\* number of blocks it removed.
C14_EveryTargetBlockRemoved ==
    (tIn.kind = "profile" /\ WellFormed /\ tOut # <<>>) =>
        /\ NoWhiteSpace(tOut[1].content) = NoWhiteSpace(Without(tIn.segs, TargetBlocks, 1))
        /\ tOut[1].removed = Cardinality(TargetBlocks)

\* The same for the four orders processFile has a pattern for: the block
\* with the children in the order editable, readable, field or field,
\* readable, editable is not in the fixture.
FieldPermissionOrdersCovered ==
    (tIn.kind = "profile" /\ WellFormed /\ tOut # <<>>
        /\ \A n \in 1..Len(tIn.segs) : tIn.segs[n] \notin {"E", "R"}) =>
        /\ NoWhiteSpace(tOut[1].content) = NoWhiteSpace(Without(tIn.segs, TargetBlocks, 1))
        /\ tOut[1].removed = Cardinality(TargetBlocks)

\* The positions of the fixture's segments that hold a <visibilityRule>
\* block naming the field.
RulesNaming(field) ==
    {n \in 1..Len(tIn.segs) :
        \/ field = FieldA /\ tIn.segs[n] \in {"vA", "iBvA", "rA"}
        \/ field = FieldB /\ tIn.segs[n] \in {"vB", "iAvB"}}

FindingsFor(rw, field) == {j \in 1..Len(rw.warnings) : rw.warnings[j].field = field}

\* C15: a FlexiPage run for one field, on a file with one <visibilityRule>
\* block that names the field (inside a nested <criteria> or not), removes
\* nothing, does not write the file and yields exactly one finding for the
\* field.
C15_OneFindingPerVisibilityRule ==
    (tIn.kind = "flexi" /\ tOut # <<>> /\ Len(tIn.fields) = 1
        /\ Cardinality(RulesNaming(tIn.fields[1])) = 1) =>
        /\ tOut[1].removed = 0
        /\ ~FlexiWritten(tIn.content, tOut[1])
        /\ Cardinality(FindingsFor(tOut[1], tIn.fields[1])) = 1

\* The same where the rule names the field outside any <criteria>.
OneFindingWithoutCriteria ==
    (tIn.kind = "flexi" /\ tOut # <<>> /\ Len(tIn.fields) = 1
        /\ Cardinality(RulesNaming(tIn.fields[1])) = 1
        /\ \A n \in RulesNaming(tIn.fields[1]) : tIn.segs[n] = "rA") =>
        /\ tOut[1].removed = 0
        /\ ~FlexiWritten(tIn.content, tOut[1])
        /\ Cardinality(FindingsFor(tOut[1], tIn.fields[1])) = 1

\* The blocks of a parent tag that hold none of the names in a child
\* element, in their order.
OtherBlocks(content, parentTag, childTag, names) ==
    SelectSeq(Elements(content, parentTag),
              LAMBDA block : \A n \in 1..Len(names) :
                                \A i \in 1..Len(Elements(block, childTag)) :
                                   Elements(block, childTag)[i] # names[n])

\* The number of blocks of a tag in the files of a list, taken together.
RECURSIVE BlockCount(_, _, _)
BlockCount(disk, paths, tag) ==
    IF paths = <<>> THEN 0
    ELSE Len(Elements(disk[Head(paths)].content, tag)) + BlockCount(disk, Tail(paths), tag)

\* C23: removeMetadataReferences, run by removeApexReferences for the class
\* MyClass, leaves in every profile and permission set the classAccesses
\* blocks of other classes, unchanged and in their order, and no block of
\* MyClass; the count it reports is the number of blocks deleted.
C23_OnlyNamedBlocksDeleted ==
    (lastOp.name = "removeApexReferences" /\ lastOp.finished) =>
        /\ \A p \in Range(AccessFiles) :
              Elements(files[p].content, "classAccesses")
                 = OtherBlocks(lastOp.before[p].content, "classAccesses", "apexClass",
                               <<ApexName>>)
        /\ lastOp.removed = BlockCount(lastOp.before, AccessFiles, "classAccesses")
                               - BlockCount(files, AccessFiles, "classAccesses")

\* Where no block of another class stands before a block of MyClass in the
\* same file, the same holds.
NamedBlocksDeletedWhereNoneBefore ==
    (lastOp.name = "removeApexReferences" /\ lastOp.finished) =>
        \A p \in Range(AccessFiles) \ {StandardProfile} :
            Elements(files[p].content, "classAccesses")
               = OtherBlocks(lastOp.before[p].content, "classAccesses", "apexClass",
                             <<ApexName>>)

\* The items of a column for none of the fields, in their order.
OtherItems(column, fields) ==
    OtherBlocks(column, "quickActionLayoutItems", "field", fields)

\* The items in the columns of a text, taken together.
RECURSIVE ItemCount(_)
ItemCount(columns) ==
    IF columns = <<>> THEN 0
    ELSE Len(Elements(Head(columns), "quickActionLayoutItems")) + ItemCount(Tail(columns))

\* C24: FieldRemover.processQuickActions leaves in every
\* quickActionLayoutColumns block the items of the fields that are not
\* asked for, unchanged and in their order, and none of the fields asked
\* for; removed is the number of items that are gone.
C24_OnlyItemsOfTheFieldRemoved ==
    (tIn.kind = "column" /\ tOut # <<>>) =>
        /\ Len(Elements(tOut[1].blocks, "quickActionLayoutColumns"))
              = Len(Elements(tIn.content, "quickActionLayoutColumns"))
        /\ \A n \in 1..Len(Elements(tIn.content, "quickActionLayoutColumns")) :
              Elements(Elements(tOut[1].blocks, "quickActionLayoutColumns")[n],
                       "quickActionLayoutItems")
                 = OtherItems(Elements(tIn.content, "quickActionLayoutColumns")[n], tIn.fields)
        /\ tOut[1].removed = ItemCount(Elements(tIn.content, "quickActionLayoutColumns"))
                               - ItemCount(Elements(tOut[1].blocks, "quickActionLayoutColumns"))

\* The item of the field is the first of its column, or the only one.
FieldItemFirst ==
    \A n \in 1..Len(tIn.segs) : tIn.segs[n] \in {"cT", "cO", "cTO", "cTB", "cTT", "n"}

\* Where no item of another field stands before an item of the field in
\* its column, the same holds.
ItemsOfTheFieldRemovedWhereFirst ==
    (tIn.kind = "column" /\ tOut # <<>> /\ FieldItemFirst /\ tIn.fields = <<FieldA>>) =>
        /\ \A n \in 1..Len(Elements(tIn.content, "quickActionLayoutColumns")) :
              Elements(Elements(tOut[1].blocks, "quickActionLayoutColumns")[n],
                       "quickActionLayoutItems")
                 = OtherItems(Elements(tIn.content, "quickActionLayoutColumns")[n], tIn.fields)
        /\ tOut[1].removed = ItemCount(Elements(tIn.content, "quickActionLayoutColumns"))
                               - ItemCount(Elements(tOut[1].blocks, "quickActionLayoutColumns"))

\* The blocks of a parent tag whose child names something valid, in their
\* order.
ValidBlocks(content, parentTag, childTag, valid) ==
    SelectSeq(Elements(content, parentTag),
              LAMBDA block : \E i \in 1..Len(Elements(block, childTag)) :
                                Elements(block, childTag)[i] \in valid)

\* C25: ProfileCleaner leaves in every profile exactly the fieldPermissions
\* blocks whose field has a field file and the classAccesses blocks whose
\* class has a class file, unchanged and in their order, and totalRemoved is
\* the number of blocks that are gone.
C25_ExactlyInvalidBlocksRemoved ==
    (lastOp.name = "cleanupProfiles" /\ lastOp.finished) =>
        /\ \A p \in Range(ProfileFiles) :
              /\ Elements(files[p].content, "fieldPermissions")
                    = ValidBlocks(lastOp.before[p].content, "fieldPermissions", "field",
                                  getValidFields([files |-> lastOp.before]))
              /\ Elements(files[p].content, "classAccesses")
                    = ValidBlocks(lastOp.before[p].content, "classAccesses", "apexClass",
                                  getValidClasses([files |-> lastOp.before]))
        /\ lastOp.removed
              = BlockCount(lastOp.before, ProfileFiles, "fieldPermissions")
                  + BlockCount(lastOp.before, ProfileFiles, "classAccesses")
                  - BlockCount(files, ProfileFiles, "fieldPermissions")
                  - BlockCount(files, ProfileFiles, "classAccesses")

\* The field Name__c and the class MyClass have their files: their blocks
\* are kept, those of Foo__c and OtherClass are gone.
C25_Witness ==
    /\ lastOp.name = "cleanupProfiles" /\ lastOp.finished
    /\ files[FieldPath].exists /\ files[ClassPath].exists
    /\ files[ProfilePath].content = PermissionBlock(FieldA)
    /\ files[StandardProfile].content = ClassAccess(ApexName)
    /\ lastOp.removed = 3

\* The visits of the last command in which the file was backed up, written
\* or counted as modified.
Touched ==
    {n \in 1..Len(lastOp.visits) : lastOp.visits[n].calls # <<>> \/ lastOp.visits[n].counted}

\* C29: LayoutCleaner backs up, overwrites and counts a file only if a
\* layoutItems block was removed from it: the collapsing of blank lines
\* alone causes none of these.
C29_WrittenOnlyWhenRemoved ==
    lastOp.name = "cleanupLayouts" =>
        \A n \in Touched :
            Len(Elements(files[lastOp.visits[n].path].content, "layoutItems"))
               < Len(Elements(lastOp.before[lastOp.visits[n].path].content, "layoutItems"))

\* The same for the layouts that hold no run of blank lines.
WrittenOnlyWhenRemovedWithoutBlankLines ==
    lastOp.name = "cleanupLayouts" =>
        \A n \in Touched :
            lastOp.visits[n].path # CloseLayout =>
                Len(Elements(files[lastOp.visits[n].path].content, "layoutItems"))
                   < Len(Elements(lastOp.before[lastOp.visits[n].path].content, "layoutItems"))

====
